---- MODULE Spec2Model ----
(***************************************************************************)
(* StreamPref: preference theories, record hierarchies, sequence          *)
(* operators, the sequence tree index and the tick scheduler.             *)
(***************************************************************************)
EXTENDS Integers, Sequences, FiniteSets, Bags, TLC

\* the three record hierarchies, fed with the same updates, and the log of
\* the updates: how many copies of each record were inserted and not
\* deleted, and the record each id was first given to
VARIABLES hier_anc, hier_part, hier_graph, hier_log

\* two plans SEQ -> CONSEQ / ENDSEQ over the same stream and window, one
\* with the incremental and one with the naive algorithm; now is the last
\* timestamp the plans ran
VARIABLES now, window, plan_inc, plan_naive

\* three plans SEQ -> BESTSEQ / TOPKSEQ over the same stream and window:
\* best sequences by depth search, best sequences by the sequence tree,
\* top-k sequences by the sequence tree
VARIABLES plan_search, plan_tree, plan_topk, plan_sub

\* two plans SEQ -> BESTSEQ / TOPKSEQ by the sequence tree with pruning
VARIABLES plan_prune, plan_prune_topk

varsH == <<hier_anc, hier_part, hier_graph, hier_log>>
varsS == <<now, window, plan_inc, plan_naive>>
varsN == <<plan_prune, plan_prune_topk>>
varsT == <<plan_search, plan_tree, plan_topk, plan_sub, varsN>>

\* the manager with its tables, queries and operators; run_log lists the
\* operators that executed with the timestamp they executed at
VARIABLES mgr, tables, queries, operators, run_log

varsM == <<mgr, tables, queries, operators, run_log>>

\* a preference query: the rules as parsed, the theory built from them, the
\* operand's current list, the best records by each algorithm, the position
\* of a depth search over the rules, and a dominance test by one comparison
VARIABLES parsed_rules, pref_theory, pref_operand, pref_best, pref_search,
          pref_compare

varsQ == <<parsed_rules, pref_theory>>
varsP == <<varsQ, pref_operand, pref_best, pref_search, pref_compare>>

\* a call of an operation of an interval, a call of an operation of a
\* temporal theory, a call of _clean_comparisons and a call of _split_rules:
\* the arguments with the value returned
VARIABLES interval_call, temporal_call, clean_call, split_call

varsV == <<interval_call, temporal_call, clean_call, split_call>>
vars == <<varsH, varsS, varsT, varsM, varsP, varsV>>

(***************************************************************************)
(* Generic helpers                                                         *)
(***************************************************************************)
\* keys of a dict in the iteration order the model fixes (ascending CHOOSE)
RECURSIVE SetToSeq(_)
SetToSeq(S) ==
    IF S = {} THEN <<>>
    ELSE LET x == CHOOSE y \in S : TRUE IN <<x>> \o SetToSeq(S \ {x})

RECURSIVE IntSetToSeq(_)
IntSetToSeq(S) ==
    IF S = {} THEN <<>>
    ELSE LET x == CHOOSE y \in S : \A z \in S : y <= z
         IN <<x>> \o IntSetToSeq(S \ {x})

Range(f) == {f[x] : x \in DOMAIN f}

RemoveAt(s, i) == [j \in 1..(Len(s) - 1) |-> IF j < i THEN s[j] ELSE s[j + 1]]

RECURSIVE Flatten(_)
Flatten(ss) ==
    IF Len(ss) = 0 THEN <<>>
    ELSE IF Len(ss) = 1 THEN ss[1]
    ELSE Flatten(SubSeq(ss, 1, Len(ss) \div 2))
         \o Flatten(SubSeq(ss, (Len(ss) \div 2) + 1, Len(ss)))

DictDel(d, k) == [x \in DOMAIN d \ {k} |-> d[x]]
DictPut(d, k, v) == [x \in DOMAIN d \cup {k} |-> IF x = k THEN v ELSE d[x]]
EmptyDict == [x \in {} |-> 0]

(***************************************************************************)
(* preference/interval.py                                                  *)
(***************************************************************************)
NoneV == -99

Interval(lv, lo, ro, rv) ==
    IF lv = rv /\ lv # NoneV /\ lo = "<=" /\ ro = "<="
    THEN [lv |-> lv, lo |-> "=", ro |-> "=", rv |-> rv]
    ELSE [lv |-> lv, lo |-> lo, ro |-> ro, rv |-> rv]

IntervalEq(v) == [lv |-> v, lo |-> "=", ro |-> "=", rv |-> v]

left_closed(iv) == iv.lo \in {"=", "<="}
right_closed(iv) == iv.ro \in {"=", "<="}

_after_left(iv, value) ==
    \/ iv.lv = NoneV
    \/ iv.lv < value
    \/ (iv.lv <= value /\ left_closed(iv))

_before_right(iv, value) ==
    \/ iv.rv = NoneV
    \/ iv.rv > value
    \/ (iv.rv >= value /\ right_closed(iv))

\* a record cell holds a plain value or (after change_record) an interval
NoIv == [lv |-> NoneV, lo |-> "<=", ro |-> "<=", rv |-> NoneV]
Cell(v) == [k |-> "v", v |-> v, iv |-> NoIv]
CellI(iv) == [k |-> "i", v |-> 0, iv |-> iv]

is_inside_or_equal(iv, cell) ==
    IF cell.k = "i" THEN iv = cell.iv
    ELSE _after_left(iv, cell.v) /\ _before_right(iv, cell.v)

\* a plain record (attribute -> value) seen as a record of cells
ToCells(rec) == [a \in DOMAIN rec |-> Cell(rec[a])]

(***************************************************************************)
(* preference/rule.py                                                      *)
(***************************************************************************)
is_condition_valid_by_record(condition_dict, record) ==
    \A att \in DOMAIN condition_dict :
        /\ att \in DOMAIN record
        /\ is_inside_or_equal(condition_dict[att], record[att])

is_best_valid_by_record(rule, record) ==
    /\ rule.att \in DOMAIN record
    /\ is_inside_or_equal(rule.best, record[rule.att])

is_worst_valid_by_record(rule, record) ==
    /\ rule.att \in DOMAIN record
    /\ is_inside_or_equal(rule.worst, record[rule.att])

NoneRec == [None |-> Cell(0)]

\* a change_record that does not look at the value of the preference attribute
change_record_any_value(rule, record) ==
    IF is_condition_valid_by_record(rule.cond, record)
    THEN [a \in (DOMAIN record \cup {rule.att}) \ rule.indiff |->
              IF a = rule.att THEN CellI(rule.worst) ELSE record[a]]
    ELSE NoneRec

change_record(rule, record) ==
    IF /\ is_condition_valid_by_record(rule.cond, record)
       /\ (rule.att \notin DOMAIN record
           \/ is_inside_or_equal(rule.best, record[rule.att]))
    THEN [a \in (DOMAIN record \cup {rule.att}) \ rule.indiff |->
              IF a = rule.att THEN CellI(rule.worst) ELSE record[a]]
    ELSE NoneRec

record_dominates(rule, record1, record2) ==
    /\ is_best_valid_by_record(rule, record1)
    /\ is_worst_valid_by_record(rule, record2)
    /\ is_condition_valid_by_record(rule.cond, record1)
    /\ is_condition_valid_by_record(rule.cond, record2)
    /\ \A att \in ((DOMAIN record1 \cup DOMAIN record2) \ {rule.att})
                      \ rule.indiff :
          /\ att \in DOMAIN record1
          /\ att \in DOMAIN record2
          /\ record1[att] = record2[att]

is_valid_by_formula(rule, formula) ==
    \A att \in DOMAIN rule.cond :
        att \in DOMAIN formula /\ formula[att] = rule.cond[att]

formula_dominates(rule, formula1, formula2) ==
    /\ rule.att \in DOMAIN formula1 /\ formula1[rule.att] = rule.best
    /\ rule.att \in DOMAIN formula2 /\ formula2[rule.att] = rule.worst
    /\ is_valid_by_formula(rule, formula1)
    /\ is_valid_by_formula(rule, formula2)
    /\ \A att \in ((DOMAIN formula1 \cup DOMAIN formula2) \ {rule.att})
                      \ rule.indiff :
          /\ att \in DOMAIN formula1
          /\ att \in DOMAIN formula2
          /\ formula1[att] = formula2[att]

\* condition atoms (in dict order), then the best and the worst atom
get_atomic_formulas_list(rule) ==
    LET conds == SetToSeq(DOMAIN rule.cond)
    IN [i \in 1..Len(conds) |->
           [a \in {conds[i]} |-> rule.cond[conds[i]]]]
       \o << [a \in {rule.att} |-> rule.best],
             [a \in {rule.att} |-> rule.worst] >>

(***************************************************************************)
(* preference/comparison.py                                                *)
(***************************************************************************)
Comparison(best_formula_dict, worst_formula_dict, indifferent_set) ==
    [best |-> best_formula_dict, worst |-> worst_formula_dict,
     indiff |-> indifferent_set]

build_comparison(formula1, formula2, rule) ==
    Comparison(formula1, formula2, {rule.att} \cup rule.indiff)

_is_formula_valid_by_record(formula, record) ==
    \A att \in DOMAIN formula :
        att \in DOMAIN record /\ is_inside_or_equal(formula[att], record[att])

is_best_record(comp, record) == _is_formula_valid_by_record(comp.best, record)

\* an is_worst_record that looks at the preferred formula
is_worst_record_by_best(comp, record) ==
    _is_formula_valid_by_record(comp.best, record)

is_worst_record(comp, record) ==
    _is_formula_valid_by_record(comp.worst, record)

\* a dominates that lets the records differ in the attributes of the formulas
comparison_dominates_outside_formulas(comp, record1, record2) ==
    /\ is_best_record(comp, record1)
    /\ is_worst_record(comp, record2)
    /\ \A att \in ((DOMAIN record1 \cup DOMAIN record2) \ comp.indiff)
                      \ (DOMAIN comp.best \cup DOMAIN comp.worst) :
          /\ att \in DOMAIN record1
          /\ att \in DOMAIN record2
          /\ record1[att] = record2[att]

comparison_dominates(comp, record1, record2) ==
    /\ is_best_record(comp, record1)
    /\ is_worst_record(comp, record2)
    /\ \A att \in (DOMAIN record1 \cup DOMAIN record2) \ comp.indiff :
          /\ att \in DOMAIN record1
          /\ att \in DOMAIN record2
          /\ record1[att] = record2[att]

get_difference_formula(big_formula, small_formula) ==
    [att \in DOMAIN big_formula \ DOMAIN small_formula |-> big_formula[att]]

is_more_generic_than(self, other) ==
    LET a_pref == get_difference_formula(other.best, self.best)
        a_notpref == get_difference_formula(other.worst, self.worst)
        g_pref == get_difference_formula(other.best, a_pref)
        g_notpref == get_difference_formula(other.worst, a_notpref)
    IN /\ self.best = g_pref
       /\ self.worst = g_notpref
       /\ \/ (a_pref = a_notpref /\ other.indiff \subseteq self.indiff)
          \/ /\ (other.indiff \cup DOMAIN a_pref) \subseteq self.indiff
             /\ (other.indiff \cup DOMAIN a_notpref) \subseteq self.indiff

\* Comparison.__cmp__: larger indifferent sets first, then smaller formulas
comparison_cmp_le(c1, c2) ==
    IF Cardinality(c1.indiff) # Cardinality(c2.indiff)
    THEN Cardinality(c1.indiff) > Cardinality(c2.indiff)
    ELSE Cardinality(DOMAIN c1.best) + Cardinality(DOMAIN c1.worst)
             <= Cardinality(DOMAIN c2.best) + Cardinality(DOMAIN c2.worst)

\* list.sort() with Comparison.__cmp__ (stable insertion sort)
RECURSIVE _insert_sorted(_, _)
_insert_sorted(sorted, c) ==
    IF sorted = <<>> THEN <<c>>
    ELSE IF comparison_cmp_le(sorted[Len(sorted)], c) THEN Append(sorted, c)
    ELSE Append(_insert_sorted(SubSeq(sorted, 1, Len(sorted) - 1), c),
                sorted[Len(sorted)])

RECURSIVE _sort_from(_, _)
_sort_from(comps, sorted) ==
    IF comps = <<>> THEN sorted
    ELSE _sort_from(Tail(comps), _insert_sorted(sorted, Head(comps)))

sort_comparisons(comps) == _sort_from(comps, <<>>)

(***************************************************************************)
(* preference/theory.py: CPTheory                                          *)
(***************************************************************************)
is_goal_record(record, goal_record) ==
    \A att \in DOMAIN goal_record :
        /\ att \in DOMAIN record
        /\ \/ /\ goal_record[att].k = "i"
              /\ is_inside_or_equal(goal_record[att].iv, record[att])
           \/ record[att] = goal_record[att]

RECURSIVE _dominates_by_search(_, _, _)
_dominates_by_search(rule_list, record1, record2) ==
    IF is_goal_record(record2, record1) THEN TRUE
    ELSE \E index \in 1..Len(rule_list) :
            LET new_rec == change_record(rule_list[index], record1)
            IN /\ new_rec # NoneRec
               /\ _dominates_by_search(RemoveAt(rule_list, index),
                                       new_rec, record2)

\* CPTheory._dominates_by_search over plain records
dominates_by_search(rule_list, record1, record2) ==
    /\ record1 # record2
    /\ _dominates_by_search(rule_list, ToCells(record1), ToCells(record2))

RECURSIVE _append_new(_, _)
_append_new(list, items) ==
    IF items = <<>> THEN list
    ELSE _append_new(IF Head(items) \in Range(list) THEN list
                     ELSE Append(list, Head(items)), Tail(items))

RECURSIVE _atomic_formulas(_, _)
_atomic_formulas(rule_list, acc) ==
    IF rule_list = <<>> THEN acc
    ELSE _atomic_formulas(Tail(rule_list),
             _append_new(acc, get_atomic_formulas_list(Head(rule_list))))

RECURSIVE _combine_formulas(_, _)
_combine_formulas(atomic_formula_list, formula_list) ==
    IF atomic_formula_list = <<>> THEN formula_list
    ELSE LET atomic == Head(atomic_formula_list)
             att == CHOOSE a \in DOMAIN atomic : TRUE
             cands == [i \in 1..Len(formula_list) |->
                          DictPut(formula_list[i], att, atomic[att])]
             idxs == SelectSeq([i \in 1..Len(formula_list) |-> i],
                        LAMBDA i : /\ att \notin DOMAIN formula_list[i]
                                   /\ cands[i] \notin Range(formula_list))
             new_formula_list ==
                 _append_new(<<>>, [n \in 1..Len(idxs) |-> cands[idxs[n]]])
         IN _combine_formulas(Tail(atomic_formula_list),
                              formula_list \o new_formula_list)

_build_formulas(rule_list) ==
    LET atomic == _atomic_formulas(rule_list, <<>>)
    IN _combine_formulas(atomic, atomic)

_combine_transitive(set1, set2) ==
    {Comparison(comp1.best, comp2.worst, comp1.indiff \cup comp2.indiff) :
        <<comp1, comp2>> \in set1 \X set2}

\* direct comparisons between every two formulas; comp_dict[idx1][idx2] is
\* kept at index (idx1 - 1) * N + idx2 of a sequence
_direct_comparisons(rule_list, formula_list) ==
    LET N == Len(formula_list)
        idx1(n) == ((n - 1) \div N) + 1
        idx2(n) == ((n - 1) % N) + 1
    IN [n \in 1..(N * N) |->
          IF idx1(n) = idx2(n) THEN {}
          ELSE {build_comparison(formula_list[idx1(n)],
                                 formula_list[idx2(n)], rule_list[r]) :
                   r \in {x \in 1..Len(rule_list) :
                             formula_dominates(rule_list[x],
                                               formula_list[idx1(n)],
                                               formula_list[idx2(n)])}}]
       \o <<>>

\* the k, i, j loops of Floyd-Warshall, updating comp_dict in place
RECURSIVE _transitive_j(_, _, _, _, _)
_transitive_j(comp_dict, k, i, j, N) ==
    IF j > N THEN comp_dict
    ELSE LET ik_set == comp_dict[(i - 1) * N + k]
             kj_set == comp_dict[(k - 1) * N + j]
         IN _transitive_j(
                IF ik_set # {} /\ kj_set # {}
                THEN [comp_dict EXCEPT ![(i - 1) * N + j] =
                         _combine_transitive(ik_set, kj_set) \cup @]
                ELSE comp_dict,
                k, i, j + 1, N)

RECURSIVE _transitive_i(_, _, _, _)
_transitive_i(comp_dict, k, i, N) ==
    IF i > N \/ Len(comp_dict) # N * N THEN comp_dict
    ELSE _transitive_i(_transitive_j(comp_dict, k, i, 1, N), k, i + 1, N)

\* one turn of the k loop when comp_dict[k][k] is empty: no cell that the
\* turn reads is written in it, so every cell is updated from the cells as
\* they are before the turn
_transitive_pass(comp_dict, k, N) ==
    [n \in 1..(N * N) |->
        IF /\ comp_dict[((n - 1) \div N) * N + k] # {}
           /\ comp_dict[(k - 1) * N + ((n - 1) % N) + 1] # {}
        THEN _combine_transitive(comp_dict[((n - 1) \div N) * N + k],
                 comp_dict[(k - 1) * N + ((n - 1) % N) + 1])
             \cup comp_dict[n]
        ELSE comp_dict[n]]
    \o <<>>

RECURSIVE _transitive_loop(_, _, _)
_transitive_loop(comp_dict, k, N) ==
    IF k > N \/ Len(comp_dict) # N * N THEN comp_dict
    ELSE _transitive_loop(IF comp_dict[(k - 1) * N + k] = {}
                          THEN _transitive_pass(comp_dict, k, N)
                          ELSE _transitive_i(comp_dict, k, 1, N),
                          k + 1, N)

RECURSIVE _clean_loop_essential(_, _)
RECURSIVE _clean_loop(_, _)
\* a loop that looks for a more generic comparison among the essential
\* comparisons only
_clean_loop_essential(initial_list, essential_list) ==
    IF initial_list = <<>> THEN essential_list
    ELSE LET comp == initial_list[Len(initial_list)]
             rest == SubSeq(initial_list, 1, Len(initial_list) - 1)
             essential == \A other_comp \in Range(essential_list) :
                              ~is_more_generic_than(other_comp, comp)
         IN _clean_loop_essential(rest,
                IF essential THEN Append(essential_list, comp)
                ELSE essential_list)

_clean_loop(initial_list, essential_list) ==
    IF initial_list = <<>> THEN essential_list
    ELSE LET comp == initial_list[Len(initial_list)]
             rest == SubSeq(initial_list, 1, Len(initial_list) - 1)
             essential == \A other_comp \in Range(rest \o essential_list) :
                              ~is_more_generic_than(other_comp, comp)
         IN _clean_loop(rest, IF essential THEN Append(essential_list, comp)
                              ELSE essential_list)

_clean_comparisons(comparison_list) == _clean_loop(comparison_list, <<>>)

\* the sorted list of the direct and transitive comparisons, as
\* _clean_comparisons finds it
_all_comparisons(comp_dict, N) ==
    LET closed == _transitive_loop(comp_dict, 1, N)
        all == Flatten([n \in 1..(N * N) |-> SetToSeq(closed[n])])
    IN sort_comparisons(all)

\* the end of _build_transitive_comparisons: clean and sort
_essential_comparisons(comparison_list) ==
    sort_comparisons(_clean_comparisons(comparison_list))

_build_transitive_comparisons(comp_dict, N) ==
    _essential_comparisons(_all_comparisons(comp_dict, N))

\* _build_comparisons up to the call of _clean_comparisons
_built_comparisons(rule_list) ==
    LET formula_list == _build_formulas(rule_list)
    IN _all_comparisons(_direct_comparisons(rule_list, formula_list),
                        Len(formula_list))

_build_comparisons(rule_list) ==
    LET formula_list == _build_formulas(rule_list)
    IN _build_transitive_comparisons(
           _direct_comparisons(rule_list, formula_list), Len(formula_list))

\* CPTheory.dominates for the partition algorithms: some comparison dominates
comparisons_dominate(comparison_list, record1, record2) ==
    \E c \in 1..Len(comparison_list) :
        comparison_dominates(comparison_list[c], ToCells(record1),
                             ToCells(record2))

(***************************************************************************)
(* The theories the model runs with                                        *)
(***************************************************************************)
CPRule(cond, att, best, worst, indiff) ==
    [cond |-> cond, att |-> att, best |-> best, worst |-> worst,
     indiff |-> indiff]

\* a = 1 BETTER a = 2 [b]
RuleA == CPRule(EmptyDict, "a", IntervalEq(1), IntervalEq(2), {"b"})
\* IF a = 2 THEN b = 1 BETTER b = 2
RuleB == CPRule([a |-> IntervalEq(2)], "b", IntervalEq(1), IntervalEq(2), {})

TheoryRules == <<RuleA, RuleB>>
TheoryComparisons == _build_comparisons(TheoryRules)

AttValues == {1, 2}
Records == [a : AttValues, b : AttValues]

\* the dominance test of the theory, tabulated over the records of the model
SearchDominance ==
    {p \in Records \X Records : dominates_by_search(TheoryRules, p[1], p[2])}

\* cptheory.dominates for depth search, ancestors and graph (theory.py:36-40)
cptheory_dominates(record1, record2) == <<record1, record2>> \in SearchDominance

(***************************************************************************)
(* operators/updatedata.py: Hierarchy                                      *)
(* Dicts with small integer keys are iterated in ascending key order.      *)
(***************************************************************************)
RemoveFirst(list, x) ==
    IF x \notin Range(list) THEN list
    ELSE RemoveAt(list, CHOOSE i \in 1..Len(list) :
                            list[i] = x /\ \A j \in 1..(i - 1) : list[j] # x)

inc_count_dict(count_dict, count_id) ==
    IF count_id \in DOMAIN count_dict
    THEN [count_dict EXCEPT ![count_id] = @ + 1]
    ELSE DictPut(count_dict, count_id, 1)

dec_count_dict(count_dict, count_id) ==
    IF count_id \in DOMAIN count_dict
    THEN IF count_dict[count_id] - 1 <= 0 THEN DictDel(count_dict, count_id)
         ELSE [count_dict EXCEPT ![count_id] = @ - 1]
    ELSE count_dict

add_to_set_id(set_dict, set_id, element) ==
    IF set_id \in DOMAIN set_dict
    THEN [set_dict EXCEPT ![set_id] = @ \cup {element}]
    ELSE DictPut(set_dict, set_id, {element})

delete_from_set_id(set_dict, set_id, element) ==
    IF set_dict[set_id] \ {element} = {} THEN DictDel(set_dict, set_id)
    ELSE [set_dict EXCEPT ![set_id] = @ \ {element}]

get_partition_id(record, comparison_id, comparison) ==
    <<comparison_id,
      [att \in DOMAIN record \ comparison.indiff |-> record[att]]>>

_tuple_id(h, record) ==
    CHOOSE id \in DOMAIN h._id_dict : h._id_dict[id] = record

\* the id Hierarchy._add returns for the record
_add_id(h, record) ==
    IF record \in Range(h._id_dict) THEN _tuple_id(h, record)
    ELSE h._current_id

\* the add that leaves the count of a record already held as it is
Hierarchy_add_once(h, record) ==
    IF record \in Range(h._id_dict) THEN h
    ELSE [h EXCEPT !._id_dict = DictPut(@, h._current_id, record),
                   !._count_dict = DictPut(@, h._current_id, 1),
                   !._current_id = @ + 1]

Hierarchy_add(h, record) ==
    IF record \in Range(h._id_dict)
    THEN [h EXCEPT !._count_dict[_tuple_id(h, record)] = @ + 1]
    ELSE [h EXCEPT !._id_dict = DictPut(@, h._current_id, record),
                   !._count_dict = DictPut(@, h._current_id, 1),
                   !._current_id = @ + 1]

Hierarchy_clean(h, del_id) ==
    [h EXCEPT !._id_dict = DictDel(@, del_id),
              !._count_dict = DictDel(@, del_id)]

\* the records of the best set, each with its count
get_best_records(h) ==
    [rec \in {h._id_dict[id] : id \in h._best_set} |->
        h._count_dict[_tuple_id(h, rec)]]

\* the multiset of records a hierarchy holds
HierarchyBag(h) ==
    [rec \in Range(h._id_dict) |-> h._count_dict[_tuple_id(h, rec)]]

(***************************************************************************)
(* HierarchyAncestors                                                      *)
(***************************************************************************)
HierarchyAncestorsInit ==
    [_current_id |-> 1, _id_dict |-> EmptyDict, _count_dict |-> EmptyDict,
     _best_set |-> {}, _ancestors_dict |-> EmptyDict,
     _level_dict |-> EmptyDict, _update_list |-> <<>>, error |-> FALSE]

RECURSIVE Ancestors_clean_loop(_, _, _, _)
Ancestors_clean_loop(h, del_id, del_level, id_list) ==
    IF id_list = <<>> THEN h
    ELSE LET rec_id == Head(id_list)
             changed == /\ h._level_dict[rec_id] > del_level
                        /\ del_id \in Range(h._ancestors_dict[rec_id])
         IN Ancestors_clean_loop(
                IF changed
                THEN [h EXCEPT !._ancestors_dict[rec_id] =
                                   RemoveFirst(@, del_id),
                               !._update_list = Append(@, rec_id)]
                ELSE h,
                del_id, del_level, Tail(id_list))

Ancestors_clean(h, del_id) ==
    LET h1 == Ancestors_clean_loop(h, del_id, h._level_dict[del_id],
                                   IntSetToSeq(DOMAIN h._ancestors_dict))
        h2 == Hierarchy_clean(h1, del_id)
    IN [h2 EXCEPT !._level_dict = DictDel(@, del_id),
                  !._ancestors_dict = DictDel(@, del_id)]

RECURSIVE _update_ancestors(_, _, _, _)
_update_ancestors(h, rec_id, record, id_list) ==
    IF id_list = <<>> THEN h
    ELSE LET other_id == Head(id_list)
             other_rec == h._id_dict[other_id]
         IN _update_ancestors(
                IF cptheory_dominates(other_rec, record)
                THEN [h EXCEPT !._ancestors_dict[rec_id] = Append(@, other_id)]
                ELSE IF cptheory_dominates(record, other_rec)
                THEN [h EXCEPT !._ancestors_dict[other_id] = Append(@, rec_id),
                               !._update_list = Append(@, other_id),
                               !._best_set =
                                   IF h._level_dict[other_id] = 0
                                   THEN @ \ {other_id} ELSE @,
                               !._level_dict[other_id] = -1]
                ELSE h,
                rec_id, record, Tail(id_list))

Ancestors_add(h, record) ==
    LET new_id == _add_id(h, record)
        h1 == Hierarchy_add(h, record)
    IN IF h1._count_dict[new_id] = 1
       THEN _update_ancestors(
                [h1 EXCEPT !._update_list = Append(@, new_id),
                           !._level_dict = DictPut(@, new_id, -1),
                           !._ancestors_dict = DictPut(@, new_id, <<>>)],
                new_id, record, IntSetToSeq(DOMAIN h1._id_dict))
       ELSE h1

Ancestors_delete(h, record) ==
    LET del_id == _tuple_id(h, record)
    IN IF h._count_dict[del_id] - 1 = 0
       THEN [Ancestors_clean(h, del_id) EXCEPT !._best_set = @ \ {del_id}]
       ELSE [h EXCEPT !._count_dict[del_id] = @ - 1]

\* the while loop of _update_level; a missing key raises KeyError (error)
RECURSIVE _update_level(_)
_update_level(h) ==
    IF h._update_list = <<>> \/ h.error THEN h
    ELSE LET rec_id == Head(h._update_list)
             rest == [h EXCEPT !._update_list = Tail(@)]
         IN IF rec_id \notin DOMAIN h._ancestors_dict THEN _update_level(rest)
            ELSE IF Len(h._ancestors_dict[rec_id]) = 0
            THEN _update_level([rest EXCEPT !._level_dict[rec_id] = 0,
                                            !._best_set = @ \cup {rec_id}])
            ELSE LET anc_list == h._ancestors_dict[rec_id]
                     stops == {i \in 1..Len(anc_list) :
                                  \/ anc_list[i] \notin DOMAIN h._level_dict
                                  \/ h._level_dict[anc_list[i]] = -1}
                     stop == CHOOSE i \in stops : \A j \in stops : i <= j
                     levels == {h._level_dict[anc_list[i]] :
                                   i \in 1..Len(anc_list)}
                 IN IF stops = {}
                    THEN _update_level(
                             [rest EXCEPT !._level_dict[rec_id] =
                                 (CHOOSE l \in levels :
                                      \A m \in levels : m <= l) + 1])
                    ELSE IF anc_list[stop] \notin DOMAIN h._level_dict
                    THEN [rest EXCEPT !.error = TRUE]
                    ELSE _update_level(
                             [rest EXCEPT !._update_list = Append(@, rec_id)])

RECURSIVE Ancestors_delete_list(_, _)
Ancestors_delete_list(h, record_list) ==
    IF record_list = <<>> THEN h
    ELSE Ancestors_delete_list(Ancestors_delete(h, Head(record_list)),
                               Tail(record_list))

RECURSIVE Ancestors_add_list(_, _)
Ancestors_add_list(h, record_list) ==
    IF record_list = <<>> THEN h
    ELSE Ancestors_add_list(Ancestors_add(h, Head(record_list)),
                            Tail(record_list))

Ancestors_update(h, delete_list, insert_list) ==
    _update_level(Ancestors_add_list(Ancestors_delete_list(h, delete_list),
                                     insert_list))

(***************************************************************************)
(* HierarchyPartition                                                      *)
(***************************************************************************)
HierarchyPartitionInit ==
    [_current_id |-> 1, _id_dict |-> EmptyDict, _count_dict |-> EmptyDict,
     _best_set |-> {}, _pdom_count |-> EmptyDict,
     _pref_count_dict |-> EmptyDict, _notpref_set_dict |-> EmptyDict]

\* inc_count_dict of _pdom_count for every id in the list
RECURSIVE inc_all(_, _)
inc_all(count_dict, id_list) ==
    IF id_list = <<>> THEN count_dict
    ELSE inc_all(inc_count_dict(count_dict, Head(id_list)), Tail(id_list))

\* the loop of _add over the comparisons; acc carries the hierarchy,
\* remove_best_set and dominated
RECURSIVE Partition_add_loop(_, _, _, _)
Partition_add_loop(acc, record, rec_id, comp_id) ==
    IF comp_id > Len(TheoryComparisons) THEN acc
    ELSE LET comp == TheoryComparisons[comp_id]
             h == acc.h
             pid == get_partition_id(record, comp_id, comp)
             others == IF pid \in DOMAIN h._notpref_set_dict
                       THEN h._notpref_set_dict[pid] ELSE {}
             first_pref == pid \notin DOMAIN h._pref_count_dict
         IN Partition_add_loop(
                IF is_best_record(comp, ToCells(record))
                THEN [acc EXCEPT
                        !.h._pref_count_dict = inc_count_dict(@, pid),
                        !.h._pdom_count =
                            IF first_pref THEN inc_all(@, IntSetToSeq(others))
                            ELSE @,
                        !.remove_best_set =
                            IF first_pref THEN @ \cup others ELSE @]
                ELSE IF is_worst_record(comp, ToCells(record))
                THEN [acc EXCEPT
                        !.h._notpref_set_dict = add_to_set_id(@, pid, rec_id),
                        !.h._pdom_count =
                            IF pid \in DOMAIN h._pref_count_dict
                            THEN inc_count_dict(@, rec_id) ELSE @,
                        !.dominated =
                            IF pid \in DOMAIN h._pref_count_dict
                            THEN TRUE ELSE @]
                ELSE acc,
                record, rec_id, comp_id + 1)

Partition_add(h, record) ==
    LET rec_id == _add_id(h, record)
        h1 == Hierarchy_add(h, record)
    IN IF h1._count_dict[rec_id] = 1
       THEN LET acc == Partition_add_loop(
                           [h |-> h1, remove_best_set |-> {},
                            dominated |-> FALSE], record, rec_id, 1)
            IN [acc.h EXCEPT !._best_set =
                   (@ \ acc.remove_best_set)
                       \cup (IF acc.dominated THEN {} ELSE {rec_id})]
       ELSE h1

\* Hierarchy._delete with the base _clean
Hierarchy_delete(h, record) ==
    LET del_id == _tuple_id(h, record)
    IN IF h._count_dict[del_id] - 1 = 0
       THEN [Hierarchy_clean(h, del_id) EXCEPT !._best_set = @ \ {del_id}]
       ELSE [h EXCEPT !._count_dict[del_id] = @ - 1]

\* the inner loop of _delete over the ids of a non preferred partition
RECURSIVE Partition_restore(_, _)
Partition_restore(h, id_list) ==
    IF id_list = <<>> THEN h
    ELSE LET other_id == Head(id_list)
             pdom == dec_count_dict(h._pdom_count, other_id)
         IN Partition_restore(
                [h EXCEPT !._pdom_count = pdom,
                          !._best_set = IF other_id \notin DOMAIN pdom
                                        THEN @ \cup {other_id} ELSE @],
                Tail(id_list))

RECURSIVE Partition_delete_loop(_, _, _, _)
Partition_delete_loop(h, record, del_id, comp_id) ==
    IF comp_id > Len(TheoryComparisons) THEN h
    ELSE LET comp == TheoryComparisons[comp_id]
             pid == get_partition_id(record, comp_id, comp)
             h1 == [h EXCEPT !._pref_count_dict = dec_count_dict(@, pid)]
         IN Partition_delete_loop(
                IF is_best_record(comp, ToCells(record))
                THEN IF pid \in DOMAIN h._notpref_set_dict
                     THEN Partition_restore(h1,
                              IntSetToSeq(h._notpref_set_dict[pid]))
                     ELSE h1
                ELSE IF is_worst_record(comp, ToCells(record))
                THEN [h EXCEPT !._notpref_set_dict =
                                   delete_from_set_id(@, pid, del_id)]
                ELSE h,
                record, del_id, comp_id + 1)

Partition_delete(h, record) ==
    LET del_id == _tuple_id(h, record)
        h1 == Hierarchy_delete(h, record)
    IN IF del_id \notin DOMAIN h1._count_dict
       THEN Partition_delete_loop(h1, record, del_id, 1)
       ELSE h1

RECURSIVE Partition_delete_list(_, _)
Partition_delete_list(h, record_list) ==
    IF record_list = <<>> THEN h
    ELSE Partition_delete_list(Partition_delete(h, Head(record_list)),
                               Tail(record_list))

RECURSIVE Partition_add_list(_, _)
Partition_add_list(h, record_list) ==
    IF record_list = <<>> THEN h
    ELSE Partition_add_list(Partition_add(h, Head(record_list)),
                            Tail(record_list))

Partition_update(h, delete_list, insert_list) ==
    Partition_add_list(Partition_delete_list(h, delete_list), insert_list)

(***************************************************************************)
(* HierarchyGraph                                                          *)
(***************************************************************************)
HierarchyGraphInit ==
    [_current_id |-> 1, _id_dict |-> EmptyDict, _count_dict |-> EmptyDict,
     _best_set |-> {}, _successors_dict |-> EmptyDict,
     _ancestors_dict |-> EmptyDict]

append_to_list_id(list_dict, list_id, element) ==
    IF list_id \in DOMAIN list_dict
    THEN [list_dict EXCEPT ![list_id] = Append(@, element)]
    ELSE DictPut(list_dict, list_id, <<element>>)

_add_edge(h, from_id, to_id) ==
    [h EXCEPT !._ancestors_dict = append_to_list_id(@, to_id, from_id),
              !._successors_dict = append_to_list_id(@, from_id, to_id)]

\* the loop of _add over the ids; acc carries the hierarchy and dominated
RECURSIVE Graph_add_loop(_, _, _, _)
Graph_add_loop(acc, record, new_id, id_list) ==
    IF id_list = <<>> THEN acc
    ELSE LET other_id == Head(id_list)
             other_rec == acc.h._id_dict[other_id]
         IN Graph_add_loop(
                IF cptheory_dominates(record, other_rec)
                THEN [acc EXCEPT !.h = [_add_edge(@, new_id, other_id)
                                           EXCEPT !._best_set = @ \ {other_id}]]
                ELSE IF cptheory_dominates(other_rec, record)
                THEN [acc EXCEPT !.h = _add_edge(@, other_id, new_id),
                                 !.dominated = TRUE]
                ELSE acc,
                record, new_id, Tail(id_list))

Graph_add(h, record) ==
    LET new_id == _add_id(h, record)
        h1 == Hierarchy_add(h, record)
    IN IF h1._count_dict[new_id] = 1
       THEN LET acc == Graph_add_loop([h |-> h1, dominated |-> FALSE],
                           record, new_id, IntSetToSeq(DOMAIN h1._id_dict))
            IN [acc.h EXCEPT !._best_set =
                   IF acc.dominated THEN @ ELSE @ \cup {new_id}]
       ELSE h1

\* removal of the input edges of del_id
RECURSIVE Graph_clean_in(_, _, _)
Graph_clean_in(h, del_id, id_list) ==
    IF id_list = <<>> THEN h
    ELSE Graph_clean_in(
             [h EXCEPT !._successors_dict[Head(id_list)] =
                           RemoveFirst(@, del_id)],
             del_id, Tail(id_list))

\* removal of the output edges of del_id
RECURSIVE Graph_clean_out(_, _, _)
Graph_clean_out(h, del_id, id_list) ==
    IF id_list = <<>> THEN h
    ELSE LET other_id == Head(id_list)
             anc == RemoveFirst(h._ancestors_dict[other_id], del_id)
         IN Graph_clean_out(
                [h EXCEPT !._ancestors_dict[other_id] = anc,
                          !._best_set = IF Len(anc) = 0
                                        THEN @ \cup {other_id} ELSE @],
                del_id, Tail(id_list))

Graph_clean(h, del_id) ==
    LET h1 == Hierarchy_clean(h, del_id)
        h2 == IF del_id \in DOMAIN h1._ancestors_dict
              THEN Graph_clean_in(
                       [h1 EXCEPT !._ancestors_dict = DictDel(@, del_id)],
                       del_id, h1._ancestors_dict[del_id])
              ELSE h1
    IN IF del_id \in DOMAIN h2._successors_dict
       THEN Graph_clean_out(
                [h2 EXCEPT !._successors_dict = DictDel(@, del_id)],
                del_id, h2._successors_dict[del_id])
       ELSE h2

\* the delete that leaves the successors of the record out of the best set
Graph_delete_no_promote(h, record) ==
    LET del_id == _tuple_id(h, record)
    IN IF h._count_dict[del_id] - 1 = 0
       THEN [Graph_clean(h, del_id) EXCEPT !._best_set = h._best_set \ {del_id}]
       ELSE [h EXCEPT !._count_dict[del_id] = @ - 1]

Graph_delete(h, record) ==
    LET del_id == _tuple_id(h, record)
    IN IF h._count_dict[del_id] - 1 = 0
       THEN [Graph_clean(h, del_id) EXCEPT !._best_set = @ \ {del_id}]
       ELSE [h EXCEPT !._count_dict[del_id] = @ - 1]

RECURSIVE Graph_delete_list(_, _)
Graph_delete_list(h, record_list) ==
    IF record_list = <<>> THEN h
    ELSE Graph_delete_list(Graph_delete(h, Head(record_list)),
                           Tail(record_list))

RECURSIVE Graph_add_list(_, _)
Graph_add_list(h, record_list) ==
    IF record_list = <<>> THEN h
    ELSE Graph_add_list(Graph_add(h, Head(record_list)), Tail(record_list))

Graph_update(h, delete_list, insert_list) ==
    Graph_add_list(Graph_delete_list(h, delete_list), insert_list)

(***************************************************************************)
(* get_topk of HierarchyPartition and of HierarchyGraph                    *)
(* A call returns the list of records, whether a KeyError or ValueError    *)
(* was raised (error) and whether its while loop stopped making progress   *)
(* with its condition still true (hang).                                   *)
(***************************************************************************)
\* [rec] * count
Repeat(rec, count) == [i \in 1..count |-> rec]

\* the loop of _remove_id_list over the comparisons for one record
RECURSIVE _remove_pref(_, _, _)
_remove_pref(pref_dict, rec, comp_id) ==
    IF comp_id > Len(TheoryComparisons) THEN pref_dict
    ELSE LET comp == TheoryComparisons[comp_id]
             pid == get_partition_id(rec, comp_id, comp)
         IN _remove_pref(IF is_best_record(comp, ToCells(rec))
                         THEN dec_count_dict(pref_dict, pid) ELSE pref_dict,
                         rec, comp_id + 1)

\* w carries id_dict, pref_dict and error (a KeyError of id_dict[tup_id])
RECURSIVE _remove_id_list(_, _)
_remove_id_list(w, toremove_list) ==
    IF toremove_list = <<>> \/ w.error THEN w
    ELSE LET tup_id == Head(toremove_list)
         IN IF tup_id \notin DOMAIN w.id_dict THEN [w EXCEPT !.error = TRUE]
            ELSE _remove_id_list(
                     [w EXCEPT !.pref_dict =
                                   _remove_pref(@, w.id_dict[tup_id], 1),
                               !.id_dict = DictDel(@, tup_id)],
                     Tail(toremove_list))

\* the test of _best_records: non preferred by some comparison whose
\* partition holds a preferred record
_is_dominated_in(pref_dict, rec) ==
    \E comp_id \in 1..Len(TheoryComparisons) :
        /\ is_worst_record(TheoryComparisons[comp_id], ToCells(rec))
        /\ get_partition_id(rec, comp_id, TheoryComparisons[comp_id])
               \in DOMAIN pref_dict

\* the ids _best_records removes, in the order of id_dict
_best_ids(id_dict, pref_dict) ==
    IntSetToSeq({tup_id \in DOMAIN id_dict :
                    ~_is_dominated_in(pref_dict, id_dict[tup_id])})

\* the records of the ids, each as many times as its count
_records_of(h, id_list) ==
    Flatten([i \in 1..Len(id_list) |->
                Repeat(h._id_dict[id_list[i]], h._count_dict[id_list[i]])])

\* the while loop of HierarchyPartition.get_topk
RECURSIVE _partition_topk_loop(_, _, _)
_partition_topk_loop(h, w, topk) ==
    IF w.error \/ ~(Len(w.rec_list) < topk /\ DOMAIN w.id_dict # {}) THEN w
    ELSE LET remove_list == _best_ids(w.id_dict, w.pref_dict)
             removed == _remove_id_list(w, remove_list)
         IN IF remove_list = <<>> THEN [w EXCEPT !.hang = TRUE]
            ELSE _partition_topk_loop(
                     h,
                     [removed EXCEPT !.rec_list =
                                         @ \o _records_of(h, remove_list)],
                     topk)

\* the list without the slice
FirstK_whole(rec_list, topk) == rec_list

\* rec_list[:topk]
FirstK(rec_list, topk) ==
    SubSeq(rec_list, 1, IF Len(rec_list) < topk THEN Len(rec_list) ELSE topk)

Partition_get_topk(h, topk) ==
    LET best_list == IntSetToSeq(h._best_set)
        w0 == [id_dict |-> h._id_dict, pref_dict |-> h._pref_count_dict,
               rec_list |-> <<>>, error |-> FALSE, hang |-> FALSE]
        w1 == IF h._best_set \subseteq DOMAIN h._id_dict
              THEN [_remove_id_list(w0, best_list) EXCEPT
                       !.rec_list = _records_of(h, best_list)]
              ELSE [w0 EXCEPT !.error = TRUE]
        w2 == _partition_topk_loop(h, w1, topk)
    IN [rec_list |-> FirstK(w2.rec_list, topk), error |-> w2.error,
        hang |-> w2.hang]

\* the loop of get_topk over the successors of rec_id; w carries anc_dict,
\* next_list and error
RECURSIVE _graph_topk_successors(_, _, _)
_graph_topk_successors(w, rec_id, id_list) ==
    IF id_list = <<>> \/ w.error THEN w
    ELSE LET next_id == Head(id_list)
         IN IF \/ next_id \notin DOMAIN w.anc_dict
               \/ rec_id \notin Range(w.anc_dict[next_id])
            THEN [w EXCEPT !.error = TRUE]
            ELSE LET anc == RemoveFirst(w.anc_dict[next_id], rec_id)
                 IN _graph_topk_successors(
                        [w EXCEPT !.anc_dict[next_id] = anc,
                                  !.next_list = IF Len(anc) = 0
                                                THEN Append(@, next_id)
                                                ELSE @],
                        rec_id, Tail(id_list))

\* the for loop of get_topk over current_list
RECURSIVE _graph_topk_current(_, _, _)
_graph_topk_current(h, w, current_list) ==
    IF current_list = <<>> \/ w.error THEN w
    ELSE LET rec_id == Head(current_list)
         IN IF rec_id \notin DOMAIN h._id_dict THEN [w EXCEPT !.error = TRUE]
            ELSE LET w1 == [w EXCEPT
                               !.id_count = @ + 1,
                               !.rec_list = @ \o Repeat(h._id_dict[rec_id],
                                                    h._count_dict[rec_id])]
                 IN _graph_topk_current(
                        h,
                        IF rec_id \in DOMAIN h._successors_dict
                        THEN _graph_topk_successors(
                                 w1, rec_id, h._successors_dict[rec_id])
                        ELSE w1,
                        Tail(current_list))

\* the while loop of HierarchyGraph.get_topk
RECURSIVE _graph_topk_loop(_, _, _, _)
_graph_topk_loop(h, w, current_list, topk) ==
    IF \/ w.error
       \/ ~(Len(w.rec_list) < topk
            /\ w.id_count < Cardinality(DOMAIN h._id_dict))
    THEN w
    ELSE IF current_list = <<>> THEN [w EXCEPT !.hang = TRUE]
    ELSE LET w1 == _graph_topk_current(h, [w EXCEPT !.next_list = <<>>],
                                       current_list)
         IN _graph_topk_loop(h, w1, w1.next_list, topk)

Graph_get_topk(h, topk) ==
    LET w == _graph_topk_loop(
                 h,
                 [anc_dict |-> h._ancestors_dict, next_list |-> <<>>,
                  rec_list |-> <<>>, id_count |-> 0, error |-> FALSE,
                  hang |-> FALSE],
                 IntSetToSeq(h._best_set), topk)
    IN [rec_list |-> FirstK(w.rec_list, topk), error |-> w.error,
        hang |-> w.hang]

(***************************************************************************)
(* control/sequence.py: Sequence                                           *)
(* Positions are counted from 0 as in the source; s[i + 1] is position i.  *)
(***************************************************************************)
\* list[start:end] of Python for 0 <= start
Slice(list, start, end) ==
    SubSeq(list, start + 1, IF end > Len(list) THEN Len(list) ELSE end)

Sequence(identifier_record) ==
    [_identifier_record |-> identifier_record, _inserted |-> 0,
     _deleted |-> 0, _position_list |-> <<>>, _timestamp_list |-> <<>>,
     _start_end_list |-> <<>>]

SeqLen(seq) == Len(seq._position_list)

append_position(seq, record, timestamp, start, end) ==
    [seq EXCEPT !._position_list = Append(@, record),
                !._timestamp_list = Append(@, timestamp),
                !._start_end_list = Append(@, <<start, end>>),
                !._inserted = @ + 1]

append_sequence(seq, sequence) ==
    [seq EXCEPT !._position_list = @ \o sequence._position_list,
                !._timestamp_list = @ \o sequence._timestamp_list,
                !._start_end_list = @ \o sequence._start_end_list,
                !._inserted = @ + SeqLen(sequence)]

delete_first(seq, positions) ==
    [seq EXCEPT !._position_list = Slice(@, positions, Len(@)),
                !._timestamp_list = Slice(@, positions, Len(@)),
                !._start_end_list = Slice(@, positions, Len(@)),
                !._deleted = @ + positions]

RECURSIVE delete_expired_positions(_, _)
delete_expired_positions(seq, timestamp) ==
    IF Len(seq._start_end_list) = 0 THEN seq
    ELSE LET start == seq._start_end_list[1][1]
             end == seq._start_end_list[1][2]
         IN IF ~(start <= timestamp /\ timestamp <= end)
            THEN delete_expired_positions(delete_first(seq, 1), timestamp)
            ELSE seq

restart_deleted(seq) == [seq EXCEPT !._deleted = 0]
restart_inserted(seq) == [seq EXCEPT !._inserted = 0]

sequence_copy(seq) ==
    restart_inserted(restart_deleted(
        append_sequence(Sequence(seq._identifier_record), seq)))

subsequence(seq, start_position, end_position) ==
    sequence_copy(
        [seq EXCEPT
           !._position_list = Slice(@, start_position, end_position + 1),
           !._timestamp_list = Slice(@, start_position, end_position + 1),
           !._start_end_list = Slice(@, start_position, end_position + 1)])

\* the last position where the sequences differ
get_last_different_position(seq, other) ==
    LET min_length == IF SeqLen(seq) <= SeqLen(other) THEN SeqLen(seq)
                      ELSE SeqLen(other)
        diff == {pos \in 0..(min_length - 1) :
                    seq._position_list[pos + 1] # other._position_list[pos + 1]}
    IN IF diff = {} THEN -1
       ELSE CHOOSE pos \in diff : \A p \in diff : pos >= p

get_first_different_position(seq, other) ==
    LET min_length == IF SeqLen(seq) <= SeqLen(other) THEN SeqLen(seq)
                      ELSE SeqLen(other)
        diff == {pos \in 0..(min_length - 1) :
                    seq._position_list[pos + 1] # other._position_list[pos + 1]}
    IN IF diff = {} THEN -1
       ELSE CHOOSE pos \in diff : \A p \in diff : pos <= p

\* the while loop of get_ctsubsequences
RECURSIVE _ctsubsequences_loop(_, _, _, _)
_ctsubsequences_loop(seq, start, end, subseq_list) ==
    IF end >= Len(seq._timestamp_list)
    THEN Append(subseq_list, subsequence(seq, start, end - 1))
    ELSE IF seq._timestamp_list[end + 1] > seq._timestamp_list[end] + 1
    THEN _ctsubsequences_loop(seq, end, end + 1,
             Append(subseq_list, subsequence(seq, start, end - 1)))
    ELSE _ctsubsequences_loop(seq, start, end + 1, subseq_list)

\* every position a sub-sequence of its own
get_single_subsequences(seq) ==
    [pos \in 1..SeqLen(seq) |-> subsequence(seq, pos - 1, pos - 1)]

get_ctsubsequences(seq) ==
    IF Len(seq._timestamp_list) > 0 THEN _ctsubsequences_loop(seq, 0, 1, <<>>)
    ELSE <<>>

\* the suffixes from the shortest to the longest
get_ep_subsequences_increasing(seq) ==
    [pos \in 1..SeqLen(seq) |->
        subsequence(seq, SeqLen(seq) - pos, SeqLen(seq))]

get_ep_subsequences(seq) ==
    [pos \in 1..SeqLen(seq) |-> subsequence(seq, pos - 1, SeqLen(seq))]

\* full records: position record, identifier and position attribute
get_record_list(seq) ==
    [pos \in 1..SeqLen(seq) |->
        [id |-> seq._identifier_record, pos |-> pos,
         rec |-> seq._position_list[pos]]]

(***************************************************************************)
(* Sequence objects live in a heap: object id -> Sequence.  The id of the  *)
(* sequence SEQ creates for an identifier at a tick is                     *)
(* <<"SEQ", identifier, tick, 0, 0>>; the id of the idx-th sub-sequence an *)
(* operator creates at a tick from a sequence born at tick b is            *)
(* <<operator, identifier, b, tick, idx>>.  Objects nobody refers to are   *)
(* freed.                                                                  *)
(***************************************************************************)
SeqId(identifier, tick) == <<"SEQ", identifier, tick, 0, 0>>
SubseqId(op, seq_id, tick, idx) == <<op, seq_id[2], seq_id[3], tick, idx>>

HeapPutAll(heap, id_list, seq_list) ==
    [id \in DOMAIN heap \cup Range(id_list) |->
        IF id \in Range(id_list)
        THEN seq_list[CHOOSE i \in 1..Len(id_list) : id_list[i] = id]
        ELSE heap[id]]

Collect(heap, roots) == [id \in DOMAIN heap \cap roots |-> heap[id]]

\* GenericSeqOp._update_record_list
_update_record_list(heap, sequence_list) ==
    Flatten([i \in 1..Len(sequence_list) |->
                get_record_list(heap[sequence_list[i]])])

\* Operator.can_run: the test; the caller makes its assignments
can_run_ready(op, operand_timestamps, timestamp) ==
    ~(op._timestamp >= timestamp)

can_run(op, operand_timestamps, timestamp) ==
    /\ ~(op._timestamp >= timestamp)
    /\ \A i \in 1..Len(operand_timestamps) :
          ~(operand_timestamps[i] # timestamp)

(***************************************************************************)
(* operators/window.py, operators/sequence.py: SeqOp                       *)
(***************************************************************************)
get_start_end(timestamp, bound, slide) ==
    <<(timestamp \div slide) * slide,
      (timestamp \div slide) * slide + bound - 1>>

SeqOpInit ==
    [_timestamp |-> -1, _current_list |-> <<>>, _previous_list |-> <<>>,
     _sequence_list |-> <<>>, _sequence_dict |-> EmptyDict]

\* identifier -> record without the identifier; a later record of the list
\* replaces an earlier one with the same identifier
_group_records(record_list) ==
    [rec_id \in {record_list[i].id : i \in 1..Len(record_list)} |->
        LET last == CHOOSE i \in 1..Len(record_list) :
                        /\ record_list[i].id = rec_id
                        /\ \A j \in (i + 1)..Len(record_list) :
                              record_list[j].id # rec_id
        IN [a |-> record_list[last].a, b |-> record_list[last].b]]

\* w carries the heap and the sequence dictionary
RECURSIVE _add_records_loop(_, _, _, _, _, _)
_add_records_loop(w, group_rec_dict, key_list, timestamp, start, end) ==
    IF key_list = <<>> THEN w
    ELSE LET rec_key == Head(key_list)
             record == group_rec_dict[rec_key]
             seq_id == IF rec_key \in DOMAIN w._sequence_dict
                       THEN w._sequence_dict[rec_key]
                       ELSE SeqId(rec_key, timestamp)
             seq == IF rec_key \in DOMAIN w._sequence_dict
                    THEN w.heap[seq_id] ELSE Sequence(rec_key)
         IN _add_records_loop(
                [heap |-> DictPut(w.heap, seq_id,
                              append_position(seq, record, timestamp,
                                              start, end)),
                 _sequence_dict |-> DictPut(w._sequence_dict, rec_key, seq_id)],
                group_rec_dict, Tail(key_list), timestamp, start, end)

_add_records_to_sequences(w, record_list, timestamp, start, end) ==
    LET group_rec_dict == _group_records(record_list)
    IN _add_records_loop(w, group_rec_dict,
                         IntSetToSeq(DOMAIN group_rec_dict),
                         timestamp, start, end)

\* SeqOp._delete_expired_positions: empty sequences leave the dictionary
_delete_expired_positions(w, timestamp) ==
    LET heap == [id \in DOMAIN w.heap |->
                    IF id \in Range(w._sequence_dict)
                    THEN delete_expired_positions(w.heap[id], timestamp)
                    ELSE w.heap[id]]
    IN [heap |-> heap,
        _sequence_dict |->
            [seq_id \in {k \in DOMAIN w._sequence_dict :
                            SeqLen(heap[w._sequence_dict[k]]) # 0} |->
                w._sequence_dict[seq_id]]]

\* the records of the tick are added before the expired positions leave
_update_sequence_list_add_first(w, record_list, timestamp, bound, slide) ==
    IF bound = -1
    THEN _add_records_to_sequences(w, record_list, timestamp, -1, -1)
    ELSE LET se == get_start_end(timestamp, bound, slide)
             w1 == IF se[1] <= timestamp /\ timestamp <= se[2]
                   THEN _add_records_to_sequences(w, record_list, timestamp,
                                                  se[1], se[2])
                   ELSE w
         IN _delete_expired_positions(w1, timestamp)

_update_sequence_list(w, record_list, timestamp, bound, slide) ==
    IF bound = -1
    THEN _add_records_to_sequences(w, record_list, timestamp, -1, -1)
    ELSE LET w1 == _delete_expired_positions(w, timestamp)
             se == get_start_end(timestamp, bound, slide)
         IN IF se[1] <= timestamp /\ timestamp <= se[2]
            THEN _add_records_to_sequences(w1, record_list, timestamp,
                                           se[1], se[2])
            ELSE w1

\* SeqOp.run; returns the heap and the operator
SeqOp_run(heap, op, record_list, operand_timestamp, timestamp, bound, slide) ==
    IF can_run(op, <<operand_timestamp>>, timestamp)
    THEN LET w == _update_sequence_list(
                      [heap |-> heap, _sequence_dict |-> op._sequence_dict],
                      record_list, timestamp, bound, slide)
             sequence_list ==
                 [i \in 1..Cardinality(DOMAIN w._sequence_dict) |->
                     w._sequence_dict[
                         IntSetToSeq(DOMAIN w._sequence_dict)[i]]]
         IN [heap |-> w.heap,
             op |-> [_timestamp |-> timestamp,
                     _previous_list |-> op._current_list,
                     _current_list |->
                         _update_record_list(w.heap, sequence_list),
                     _sequence_list |-> sequence_list,
                     _sequence_dict |-> w._sequence_dict]]
    ELSE [heap |-> heap, op |-> op]

(***************************************************************************)
(* operators/sequence.py: ConseqOp and EndseqOp                            *)
(* w carries the heap, the sub-sequence list being updated (object ids)    *)
(* and whether an IndexError was raised.                                   *)
(***************************************************************************)
SUBSEQ_ALG_NAIVE == "naive"
SUBSEQ_ALG_INCREMENTAL == "incremental"

SubseqOpInit(operator_name, subseq_alg) ==
    [_operator_name |-> operator_name, _subseq_alg |-> subseq_alg,
     _timestamp |-> -1, _current_list |-> <<>>, _previous_list |-> <<>>,
     _sequence_list |-> <<>>, _subsequence_dict |-> EmptyDict,
     error |-> FALSE]

\* the objects of a list of new sub-sequences of a sequence enter the heap
NewIds(op, seq_id, tick, new_list) ==
    [i \in 1..Len(new_list) |-> SubseqId(op, seq_id, tick, i)]

RECURSIVE _delete_conseq_loop(_, _, _, _)
_delete_conseq_loop(w, count, deleted, subseq) ==
    IF count < deleted
    THEN IF w.list = <<>> THEN [w EXCEPT !.error = TRUE]
         ELSE _delete_conseq_loop([w EXCEPT !.list = Tail(@)],
                                  count + SeqLen(w.heap[Head(w.list)]),
                                  deleted, Head(w.list))
    ELSE IF count > deleted
    THEN [w EXCEPT
            !.heap[subseq] =
                delete_first(@, deleted - (count - SeqLen(w.heap[subseq]))),
            !.list = <<subseq>> \o @]
    ELSE w

_delete_conseq_keep(w, seq_id) ==
    [w EXCEPT !.heap[seq_id] = restart_deleted(@)]

_delete_conseq(w, seq_id) ==
    _delete_conseq_loop([w EXCEPT !.heap[seq_id] = restart_deleted(@)],
                        0, w.heap[seq_id]._deleted, seq_id)

_insert_conseq(w, seq_id, op, tick) ==
    LET sequence == w.heap[seq_id]
        inserted == sequence._inserted
        w1 == [w EXCEPT !.heap[seq_id] = restart_inserted(@)]
        start == SeqLen(sequence) - inserted
        inserted_subseq == subsequence(sequence, start, SeqLen(sequence))
        new_list == get_ctsubsequences(inserted_subseq)
    IN IF w.error \/ ~(inserted > 0) THEN w1
       ELSE IF w.list = <<>> \/ new_list = <<>>
       THEN [w1 EXCEPT !.error = TRUE]
       ELSE LET last_subseq == w.list[Len(w.list)]
                new_subseq == Head(new_list)
                last_ts == w.heap[last_subseq]._timestamp_list
            IN IF last_ts = <<>> THEN [w1 EXCEPT !.error = TRUE]
               ELSE LET fuse == new_subseq._timestamp_list[1] =
                                    last_ts[Len(last_ts)] + 1
                        rest == IF fuse THEN Tail(new_list) ELSE new_list
                        ids == NewIds(op, seq_id, tick, rest)
                    IN [w1 EXCEPT
                          !.heap = HeapPutAll(
                              IF fuse
                              THEN [w1.heap EXCEPT ![last_subseq] =
                                       append_sequence(@, new_subseq)]
                              ELSE w1.heap,
                              ids, rest),
                          !.list = @ \o ids]

RECURSIVE _delete_endseq_loop(_, _)
_delete_endseq_loop(w, max_length) ==
    IF Len(w.list) = 0 THEN w
    ELSE IF SeqLen(w.heap[Head(w.list)]) <= max_length THEN w
    ELSE _delete_endseq_loop([w EXCEPT !.list = Tail(@)], max_length)

_delete_endseq_one(w, seq_id, deleted, inserted) ==
    IF deleted > 0 /\ Len(w.list) # 0 THEN [w EXCEPT !.list = Tail(@)] ELSE w

_delete_endseq(w, seq_id, deleted, inserted) ==
    IF deleted > 0
    THEN _delete_endseq_loop(w, SeqLen(w.heap[seq_id]) - inserted)
    ELSE w

_insert_endseq(w, seq_id, inserted, op, tick) ==
    IF inserted > 0
    THEN LET sequence == w.heap[seq_id]
             start == SeqLen(sequence) - inserted
             new_seq == subsequence(sequence, start, SeqLen(sequence))
             new_list == get_ep_subsequences(new_seq)
             ids == NewIds(op, seq_id, tick, new_list)
         IN [w EXCEPT
               !.heap = HeapPutAll(
                   [id \in DOMAIN w.heap |->
                       IF id \in Range(w.list)
                       THEN append_sequence(w.heap[id], new_seq)
                       ELSE w.heap[id]],
                   ids, new_list),
               !.list = @ \o ids]
    ELSE w

\* the sub-sequences of one sequence from scratch
_scratch(op, sequence) ==
    IF op._operator_name = "CONSEQ" THEN get_ctsubsequences(sequence)
    ELSE get_ep_subsequences(sequence)

\* one turn of the for loop of _update_subsequences
_update_subsequences_seq(w, op, seq_id, tick) ==
    IF seq_id \notin DOMAIN op._subsequence_dict
    THEN LET new_list == _scratch(op, w.heap[seq_id])
             ids == NewIds(op._operator_name, seq_id, tick, new_list)
         IN [heap |-> HeapPutAll(
                         [w.heap EXCEPT ![seq_id] =
                             restart_deleted(restart_inserted(@))],
                         ids, new_list),
             list |-> ids, error |-> w.error]
    ELSE LET w0 == [w EXCEPT !.list = op._subsequence_dict[seq_id]]
         IN IF op._operator_name = "CONSEQ"
            THEN _insert_conseq(_delete_conseq(w0, seq_id), seq_id,
                                op._operator_name, tick)
            ELSE LET deleted == w.heap[seq_id]._deleted
                     inserted == w.heap[seq_id]._inserted
                     w1 == [w0 EXCEPT !.heap[seq_id] =
                                  restart_inserted(restart_deleted(@))]
                 IN _insert_endseq(
                        _delete_endseq(w1, seq_id, deleted, inserted),
                        seq_id, inserted, op._operator_name, tick)

\* acc carries the heap, the new dictionary, the result list and the error
RECURSIVE _update_subsequences_loop(_, _, _, _)
_update_subsequences_loop(acc, op, seq_list, tick) ==
    IF seq_list = <<>> \/ acc.error THEN acc
    ELSE LET seq_id == Head(seq_list)
             w == _update_subsequences_seq(
                      [heap |-> acc.heap, list |-> <<>>, error |-> FALSE],
                      op, seq_id, tick)
         IN _update_subsequences_loop(
                [heap |-> w.heap,
                 new_subseq_dict |-> DictPut(acc.new_subseq_dict, seq_id,
                                             w.list),
                 result_list |-> acc.result_list \o w.list,
                 error |-> w.error],
                op, Tail(seq_list), tick)

_update_subsequences(heap, op, seq_list, tick) ==
    _update_subsequences_loop(
        [heap |-> heap, new_subseq_dict |-> EmptyDict,
         result_list |-> <<>>, error |-> FALSE],
        op, seq_list, tick)

_get_subsequences_scratch(heap, op, seq_list, tick) ==
    LET lists == [i \in 1..Len(seq_list) |->
                     _scratch(op, heap[seq_list[i]])]
        ids == [i \in 1..Len(seq_list) |->
                   NewIds(op._operator_name, seq_list[i], tick, lists[i])]
    IN [heap |-> HeapPutAll(heap, Flatten(ids), Flatten(lists)),
        new_subseq_dict |-> op._subsequence_dict,
        result_list |-> Flatten(ids), error |-> FALSE]

\* ConseqOp.run and EndseqOp.run; an exception leaves the operator
\* as can_run left it, with its old sequence list
SubseqOp_run(heap, op, seq_list, operand_timestamp, timestamp) ==
    IF can_run(op, <<operand_timestamp>>, timestamp)
    THEN LET r == IF op._subseq_alg = SUBSEQ_ALG_NAIVE
                  THEN _get_subsequences_scratch(heap, op, seq_list,
                                                 timestamp)
                  ELSE _update_subsequences(heap, op, seq_list, timestamp)
         IN IF r.error
            THEN [heap |-> r.heap,
                  op |-> [op EXCEPT !._timestamp = timestamp,
                                    !._previous_list = op._current_list,
                                    !._current_list = <<>>,
                                    !.error = TRUE]]
            ELSE [heap |-> r.heap,
                  op |-> [op EXCEPT
                            !._timestamp = timestamp,
                            !._previous_list = op._current_list,
                            !._current_list =
                                _update_record_list(r.heap, r.result_list),
                            !._sequence_list = r.result_list,
                            !._subsequence_dict = r.new_subseq_dict]]
    ELSE [heap |-> heap, op |-> op]

(***************************************************************************)
(* preference/rule.py: TCPCondition, TCPRule                               *)
(* A TCP rule is a CP rule with the past conditions of its condition.      *)
(***************************************************************************)
TCPRule(first, cond, previous, some, all, att, best, worst, indiff) ==
    [first |-> first, cond |-> cond, previous |-> previous, some |-> some,
     all |-> all, att |-> att, best |-> best, worst |-> worst,
     indiff |-> indiff]

has_first(rule) == rule.first

has_previous(rule) ==
    \/ Cardinality(DOMAIN rule.previous) > 0
    \/ Cardinality(DOMAIN rule.some) > 0
    \/ Cardinality(DOMAIN rule.all) > 0

\* sequence.get_position(position)
get_position(sequence, position) == sequence._position_list[position + 1]

_is_previous_valid_by(rule, sequence, position) ==
    IF ~has_previous(rule) THEN TRUE
    ELSE IF position > 0
    THEN is_condition_valid_by_record(
             rule.previous, ToCells(get_position(sequence, position - 1)))
    ELSE FALSE

_is_some_valid_by(rule, sequence, position) ==
    IF ~has_previous(rule) THEN TRUE
    ELSE IF position > 0
    THEN \E pos \in 0..(position - 1) :
             is_condition_valid_by_record(
                 rule.some, ToCells(get_position(sequence, pos)))
    ELSE FALSE

\* ALL PREVIOUS taken as valid when one earlier position is valid
_is_all_valid_by_some(rule, sequence, position) ==
    IF ~has_previous(rule) THEN TRUE
    ELSE IF position > 0
    THEN \E pos \in 0..(position - 1) :
             is_condition_valid_by_record(
                 rule.all, ToCells(get_position(sequence, pos)))
    ELSE FALSE

_is_all_valid_by(rule, sequence, position) ==
    IF ~has_previous(rule) THEN TRUE
    ELSE IF position > 0
    THEN \A pos \in 0..(position - 1) :
             is_condition_valid_by_record(
                 rule.all, ToCells(get_position(sequence, pos)))
    ELSE FALSE

is_valid_by_position(rule, sequence, position) ==
    IF has_first(rule) /\ position # 0 THEN FALSE
    ELSE IF ~is_condition_valid_by_record(
                 rule.cond, ToCells(get_position(sequence, position)))
    THEN FALSE
    ELSE IF ~_is_previous_valid_by(rule, sequence, position) THEN FALSE
    ELSE IF ~_is_some_valid_by(rule, sequence, position) THEN FALSE
    ELSE IF ~_is_all_valid_by(rule, sequence, position) THEN FALSE
    ELSE TRUE

is_temporal_valid_by_position(rule, sequence, position) ==
    IF has_first(rule) /\ position # 0 THEN FALSE
    ELSE IF ~_is_previous_valid_by(rule, sequence, position) THEN FALSE
    ELSE IF ~_is_some_valid_by(rule, sequence, position) THEN FALSE
    ELSE IF ~_is_all_valid_by(rule, sequence, position) THEN FALSE
    ELSE TRUE

(***************************************************************************)
(* preference/theory.py: TCPTheory                                         *)
(***************************************************************************)
get_valid_rules(rule_list, sequence, position) ==
    SelectSeq(rule_list,
              LAMBDA rule : is_valid_by_position(rule, sequence, position))

\* TCPTheory.dominates_by_search
tcp_dominates_by_search(rule_list, sequence, goal_sequence) ==
    LET pos == get_first_different_position(sequence, goal_sequence)
    IN IF pos # -1
       THEN dominates_by_search(get_valid_rules(rule_list, sequence, pos),
                                get_position(sequence, pos),
                                get_position(goal_sequence, pos))
       ELSE FALSE

(***************************************************************************)
(* The TCP-theory the temporal preference operators run with               *)
(***************************************************************************)
\* a = 1 BETTER a = 2
TRule1 == TCPRule(FALSE, EmptyDict, EmptyDict, EmptyDict, EmptyDict,
                  "a", IntervalEq(1), IntervalEq(2), {})
\* IF FIRST AND a = 2 THEN b = 1 BETTER b = 2
TRule2 == TCPRule(TRUE, [a |-> IntervalEq(2)], EmptyDict, EmptyDict,
                  EmptyDict, "b", IntervalEq(1), IntervalEq(2), {})
\* IF PREVIOUS a = 1 AND a = 2 THEN b = 2 BETTER b = 1
TRule3 == TCPRule(FALSE, [a |-> IntervalEq(2)], [a |-> IntervalEq(1)],
                  EmptyDict, EmptyDict, "b", IntervalEq(2), IntervalEq(1), {})

TCPTheoryRules == <<TRule1, TRule2, TRule3>>

(***************************************************************************)
(* operators/seqtreehierarchy.py                                           *)
(* The id of a record, tuple(record.items()), is the record itself.        *)
(***************************************************************************)
NoneSeq == [None |-> 0]

\* the rules temporally valid for the position after the sequence, as
\* their places in the rule list
get_rules_for_sequence(sequence, rule_list) ==
    LET seq == append_position(IF sequence = NoneSeq THEN Sequence(EmptyDict)
                               ELSE sequence_copy(sequence),
                               EmptyDict, 0, 0, 0)
    IN SelectSeq([i \in 1..Len(rule_list) |-> i],
                 LAMBDA i : is_temporal_valid_by_position(
                                rule_list[i], seq, SeqLen(seq) - 1))

\* the keys of the rule lists get_rules_for_sequence can return
TheoryKeys ==
    SetToSeq({IntSetToSeq(index_set) :
                 index_set \in SUBSET (1..Len(TCPTheoryRules))})

RECURSIVE _build_theories(_)
_build_theories(key_list) ==
    IF key_list = <<>> THEN <<>>
    ELSE << <<Head(key_list),
              _build_comparisons([i \in 1..Len(Head(key_list)) |->
                                     TCPTheoryRules[Head(key_list)[i]]])>> >>
         \o _build_theories(Tail(key_list))

\* PreferenceDict._cptheory_dict: key of a rule list -> comparisons of the
\* cp-theory over the rule list
_cptheory_dict == _build_theories(TheoryKeys)

\* PreferenceDict._get_theory: the cp-theory is known by its key
_get_theory(sequence) == get_rules_for_sequence(sequence, TCPTheoryRules)

get_comparison_list(cptheory) ==
    _cptheory_dict[CHOOSE n \in 1..Len(_cptheory_dict) :
                      _cptheory_dict[n][1] = cptheory][2]

PartitionHierarchy(cptheory) ==
    [_cptheory |-> cptheory, _record_dict |-> EmptyDict,
     _pref_count_dict |-> EmptyDict, _nonpref_set_dict |-> EmptyDict,
     _dominated_count |-> EmptyDict]

\* PreferenceDict.get_hierarchy
get_hierarchy(sequence) == PartitionHierarchy(_get_theory(sequence))

RECURSIVE _inc_count_all(_, _)
_inc_count_all(count_dict, id_list) ==
    IF id_list = <<>> THEN count_dict
    ELSE _inc_count_all(inc_count_dict(count_dict, Head(id_list)),
                        Tail(id_list))

RECURSIVE _dec_count_all(_, _)
_dec_count_all(count_dict, id_list) ==
    IF id_list = <<>> THEN count_dict
    ELSE _dec_count_all(dec_count_dict(count_dict, Head(id_list)),
                        Tail(id_list))

\* the comparison loop of PartitionHierarchy.add; comp_id counts from 0
RECURSIVE PartitionHierarchy_add_loop(_, _, _, _)
PartitionHierarchy_add_loop(h, new_record, comparison_list, comp_id) ==
    IF comp_id >= Len(comparison_list) THEN h
    ELSE LET comp == comparison_list[comp_id + 1]
             pid == get_partition_id(new_record, comp_id, comp)
         IN PartitionHierarchy_add_loop(
                IF is_best_record(comp, ToCells(new_record))
                THEN [h EXCEPT
                        !._pref_count_dict = inc_count_dict(@, pid),
                        !._dominated_count =
                            IF /\ inc_count_dict(h._pref_count_dict,
                                                 pid)[pid] = 1
                               /\ pid \in DOMAIN h._nonpref_set_dict
                            THEN _inc_count_all(
                                     @, SetToSeq(h._nonpref_set_dict[pid]))
                            ELSE @]
                ELSE IF is_worst_record(comp, ToCells(new_record))
                THEN [h EXCEPT
                        !._nonpref_set_dict =
                            add_to_set_id(@, pid, new_record),
                        !._dominated_count =
                            IF pid \in DOMAIN h._pref_count_dict
                            THEN inc_count_dict(@, new_record) ELSE @]
                ELSE h,
                new_record, comparison_list, comp_id + 1)

PartitionHierarchy_add(h, new_record) ==
    PartitionHierarchy_add_loop(
        [h EXCEPT !._record_dict = DictPut(@, new_record, new_record)],
        new_record, get_comparison_list(h._cptheory), 0)

RECURSIVE PartitionHierarchy_delete_loop(_, _, _, _)
PartitionHierarchy_delete_loop(h, del_record, comparison_list, comp_id) ==
    IF comp_id >= Len(comparison_list) THEN h
    ELSE LET comp == comparison_list[comp_id + 1]
             pid == get_partition_id(del_record, comp_id, comp)
         IN PartitionHierarchy_delete_loop(
                IF is_best_record(comp, ToCells(del_record))
                THEN [h EXCEPT
                        !._pref_count_dict = dec_count_dict(@, pid),
                        !._dominated_count =
                            IF /\ pid \notin DOMAIN dec_count_dict(
                                                 h._pref_count_dict, pid)
                               /\ pid \in DOMAIN h._nonpref_set_dict
                            THEN _dec_count_all(
                                     @, SetToSeq(h._nonpref_set_dict[pid]))
                            ELSE @]
                ELSE IF is_worst_record(comp, ToCells(del_record))
                THEN [h EXCEPT
                        !._nonpref_set_dict =
                            delete_from_set_id(@, pid, del_record),
                        !._dominated_count = DictDel(@, del_record)]
                ELSE h,
                del_record, comparison_list, comp_id + 1)

PartitionHierarchy_delete(h, del_record) ==
    PartitionHierarchy_delete_loop(
        [h EXCEPT !._record_dict = DictDel(@, del_record)],
        del_record, get_comparison_list(h._cptheory), 0)

\* PartitionHierarchy.copy: the new hierarchy takes copies of the dicts of
\* self, and self takes a copy of its sets of non preferred records
PartitionHierarchy_copy(h) ==
    [self |-> [h EXCEPT !._nonpref_set_dict =
                            [pid \in DOMAIN h._nonpref_set_dict |->
                                h._nonpref_set_dict[pid]]],
     hierarchy |-> [PartitionHierarchy(h._cptheory) EXCEPT
                      !._record_dict = h._record_dict,
                      !._pref_count_dict = h._pref_count_dict,
                      !._nonpref_set_dict = h._nonpref_set_dict,
                      !._dominated_count = h._dominated_count]]

PartitionHierarchy_get_best(h) ==
    SelectSeq(SetToSeq(DOMAIN h._record_dict),
              LAMBDA rec_id : rec_id \notin DOMAIN h._dominated_count)

(***************************************************************************)
(* operators/seqtree.py: SeqNode                                           *)
(* Nodes live in a heap: reference -> node.  A reference is                *)
(* <<tag, path>>: the tag tells the nodes of the index ("tree") from the   *)
(* nodes copy() creates ("copy"), the path lists the records from the      *)
(* root.  A child dictionary maps a record to the reference of the child,  *)
(* a sequence dictionary is the set of the ids of its sequences.           *)
(***************************************************************************)
NoneNode == [None |-> 1]

get_position_id(sequence, position) == get_position(sequence, position)

SeqNode(sequence, father) ==
    LET depth == IF father = NoneNode THEN 0 ELSE father._depth + 1
    IN [_depth |-> depth,
        _sequence |-> IF sequence = NoneSeq THEN NoneSeq
                      ELSE subsequence(sequence, 0, depth - 1),
        _child_dict |-> EmptyDict,
        _sequence_dict |-> {},
        _hierarchy |-> get_hierarchy(IF sequence = NoneSeq THEN NoneSeq
                                     ELSE subsequence(sequence, 0,
                                                      depth - 1))]

RootRef(tag) == <<tag, <<>>>>
ChildRef(self, node_id) == <<self[1], Append(self[2], node_id)>>
CopyRef(self) == <<"copy", self[2]>>

get_record(node) ==
    IF node._sequence = NoneSeq THEN NoneRec
    ELSE node._sequence._position_list[SeqLen(node._sequence)]

get_id(node) == get_record(node)

\* the children of a node in the order of its child dictionary
child_values(node) ==
    [i \in 1..Cardinality(DOMAIN node._child_dict) |->
        node._child_dict[SetToSeq(DOMAIN node._child_dict)[i]]]

_new_child(nodes, self, sequence, node_id) ==
    LET child == SeqNode(sequence, nodes[self])
    IN DictPut([nodes EXCEPT
                  ![self] = [@ EXCEPT
                      !._child_dict =
                          DictPut(@, node_id, ChildRef(self, node_id)),
                      !._hierarchy =
                          PartitionHierarchy_add(@, get_record(child))]],
               ChildRef(self, node_id), child)

\* returns the heap and the node that took the sequence
RECURSIVE add_sequence_recursive(_, _, _, _)
add_sequence_recursive(nodes, self, seq_id, sequence) ==
    IF nodes[self]._depth = SeqLen(sequence)
    THEN [nodes |-> [nodes EXCEPT
                       ![self] = [@ EXCEPT !._sequence_dict = @ \cup {seq_id}]],
          node |-> self]
    ELSE LET node_id == get_position_id(sequence, nodes[self]._depth)
         IN IF node_id \in DOMAIN nodes[self]._child_dict
            THEN add_sequence_recursive(
                     nodes, nodes[self]._child_dict[node_id], seq_id,
                     sequence)
            ELSE add_sequence_recursive(
                     _new_child(nodes, self, sequence, node_id),
                     ChildRef(self, node_id), seq_id, sequence)

is_empty(node) ==
    Cardinality(node._sequence_dict) = 0
        /\ Cardinality(DOMAIN node._child_dict) = 0

delete_sequence(nodes, self, seq_id) ==
    [nodes EXCEPT ![self] = [@ EXCEPT !._sequence_dict = @ \ {seq_id}]]

_del_child(nodes, self, child) ==
    [nodes EXCEPT
       ![self] = [@ EXCEPT
           !._child_dict = DictDel(@, get_id(nodes[child])),
           !._hierarchy =
               PartitionHierarchy_delete(@, get_record(nodes[child]))]]

RECURSIVE _del_child_list(_, _, _)
_del_child_list(nodes, self, del_list) ==
    IF del_list = <<>> THEN nodes
    ELSE _del_child_list(_del_child(nodes, self, Head(del_list)), self,
                         Tail(del_list))

\* the second loop of clean_recursive, over the children found empty
_del_empty_children(nodes, self) ==
    _del_child_list(nodes, self,
                    SelectSeq(child_values(nodes[self]),
                              LAMBDA child : is_empty(nodes[child])))

RECURSIVE clean_recursive(_, _)
RECURSIVE _clean_children(_, _)
_clean_children(nodes, child_list) ==
    IF child_list = <<>> THEN nodes
    ELSE _clean_children(clean_recursive(nodes, Head(child_list)),
                         Tail(child_list))

clean_recursive(nodes, self) ==
    _del_empty_children(_clean_children(nodes, child_values(nodes[self])),
                        self)

(***************************************************************************)
(* operators/seqtree.py: SeqNodePruning                                    *)
(* A node of the pruning tree has the attributes of a SeqNode and the flag *)
(* _dominated; its hierarchy is None until it has two children.  born is   *)
(* a record of how the node was created, kept for the properties: whether  *)
(* a node of its path was dominated, the flag _new_child_pruning left it   *)
(* with, and whether the hierarchy of its father took its record.          *)
(***************************************************************************)
NoneHierarchy == [None |-> 3]

NotBorn == [below_dominated |-> FALSE, dominated |-> FALSE,
            classified |-> FALSE]

SeqNodePruning(sequence, father) ==
    LET depth == IF father = NoneNode THEN 0 ELSE father._depth + 1
    IN [_depth |-> depth,
        _sequence |-> IF sequence = NoneSeq THEN NoneSeq
                      ELSE subsequence(sequence, 0, depth - 1),
        _child_dict |-> EmptyDict,
        _sequence_dict |-> {},
        _hierarchy |-> NoneHierarchy,
        _dominated |-> FALSE,
        born |-> NotBorn]

\* isinstance(node, SeqNodePruning)
is_pruning(node) == "_dominated" \in DOMAIN node

is_dominated(node) == node._dominated

set_dominated(nodes, self) ==
    [nodes EXCEPT ![self] = [@ EXCEPT !._dominated = TRUE,
                                     !._hierarchy = NoneHierarchy]]

\* the records of the children in the order of the child dictionary
child_records(nodes, self) ==
    [i \in 1..Len(child_values(nodes[self])) |->
        get_record(nodes[child_values(nodes[self])[i]])]

RECURSIVE _hierarchy_add_all(_, _)
_hierarchy_add_all(hierarchy, rec_list) ==
    IF rec_list = <<>> THEN hierarchy
    ELSE _hierarchy_add_all(PartitionHierarchy_add(hierarchy, Head(rec_list)),
                            Tail(rec_list))

_restart_hierarchy(nodes, self) ==
    [nodes EXCEPT
       ![self] = [@ EXCEPT
           !._hierarchy =
               _hierarchy_add_all(get_hierarchy(nodes[self]._sequence),
                                  child_records(nodes, self))]]

\* PartitionHierarchy.get_dominant_dominated
get_dominant_dominated(h) ==
    [dominant_list |->
         SelectSeq(SetToSeq(DOMAIN h._record_dict),
                   LAMBDA rec_id : rec_id \notin DOMAIN h._dominated_count),
     dominated_list |->
         SelectSeq(SetToSeq(DOMAIN h._record_dict),
                   LAMBDA rec_id : rec_id \in DOMAIN h._dominated_count)]

\* the two lists _update_all_children goes through
_children_lists(node) ==
    IF node._hierarchy = NoneHierarchy
    THEN [dominant_list |-> SetToSeq(DOMAIN node._child_dict),
          dominated_list |-> <<>>]
    ELSE get_dominant_dominated(node._hierarchy)

RECURSIVE _set_dominated_children(_, _, _)
_set_dominated_children(nodes, self, id_list) ==
    IF id_list = <<>> THEN nodes
    ELSE _set_dominated_children(
             set_dominated(nodes, nodes[self]._child_dict[Head(id_list)]),
             self, Tail(id_list))

RECURSIVE _update_all_children(_, _)
RECURSIVE set_dominant(_, _)
RECURSIVE _set_dominant_children(_, _, _)
_set_dominant_children(nodes, self, id_list) ==
    IF id_list = <<>> THEN nodes
    ELSE _set_dominant_children(
             set_dominant(nodes, nodes[self]._child_dict[Head(id_list)]),
             self, Tail(id_list))

_update_all_children(nodes, self) ==
    _set_dominant_children(
        _set_dominated_children(nodes, self,
                                _children_lists(nodes[self]).dominated_list),
        self, _children_lists(nodes[self]).dominant_list)

_set_dominant_flag(nodes, self) ==
    [nodes EXCEPT ![self] = [@ EXCEPT !._dominated = FALSE]]

set_dominant(nodes, self) ==
    _set_dominant_flag(
        IF nodes[self]._dominated
        THEN _update_all_children(
                 IF Cardinality(DOMAIN nodes[self]._child_dict) >= 2
                 THEN _restart_hierarchy(nodes, self) ELSE nodes,
                 self)
        ELSE nodes,
        self)

\* _add_child_to_hierarchy after self._hierarchy.add(record)
_add_child_classified(nodes, self, child) ==
    IF get_record(nodes[child]) \in DOMAIN nodes[self]._hierarchy._dominated_count
    THEN set_dominated(nodes, child)
    ELSE _update_all_children(nodes, self)

_add_child_to_hierarchy(nodes, self, child) ==
    IF nodes[self]._hierarchy # NoneHierarchy
    THEN _add_child_classified(
             [nodes EXCEPT
                ![self] = [@ EXCEPT
                    !._hierarchy =
                        PartitionHierarchy_add(@, get_record(nodes[child]))]],
             self, child)
    ELSE nodes

\* the child enters the child dictionary of self and the heap
_put_child(nodes, self, node_id, child) ==
    DictPut([nodes EXCEPT
               ![self] = [@ EXCEPT
                   !._child_dict =
                       DictPut(@, node_id, ChildRef(self, node_id))]],
            ChildRef(self, node_id), child)

\* self and the nodes above it
PathNodes(self) == {<<self[1], SubSeq(self[2], 1, n)>> : n \in 0..Len(self[2])}

\* the child as _new_child_pruning leaves it, with the record of its creation
_born(before, nodes, self, child) ==
    [nodes EXCEPT
       ![child] = [@ EXCEPT
           !.born =
               [below_dominated |->
                    \E ref \in PathNodes(self) : is_dominated(before[ref]),
                dominated |-> is_dominated(nodes[child]),
                classified |->
                    /\ nodes[self]._hierarchy # NoneHierarchy
                    /\ get_record(nodes[child])
                           \in DOMAIN nodes[self]._hierarchy._record_dict]]]

_new_child_created(nodes, self, sequence, node_id, ancestor_dominated) ==
    IF ancestor_dominated
    THEN _put_child(nodes, self, node_id,
                    [SeqNodePruning(sequence, nodes[self]) EXCEPT
                        !._dominated = TRUE, !._hierarchy = NoneHierarchy])
    ELSE _add_child_to_hierarchy(
             _put_child(IF Cardinality(DOMAIN nodes[self]._child_dict) = 1
                        THEN _restart_hierarchy(nodes, self) ELSE nodes,
                        self, node_id, SeqNodePruning(sequence, nodes[self])),
             self, ChildRef(self, node_id))

_new_child_pruning(nodes, self, sequence, node_id, ancestor_dominated) ==
    _born(nodes,
          _new_child_created(nodes, self, sequence, node_id,
                             ancestor_dominated),
          self, ChildRef(self, node_id))

\* returns the heap and the node that took the sequence
RECURSIVE add_sequence_pruning(_, _, _, _, _)
_add_sequence_to_child(nodes, node, seq_id, sequence, ancestor_dominated) ==
    add_sequence_pruning(nodes, node, seq_id, sequence,
                         ancestor_dominated /\ is_dominated(nodes[node]))

add_sequence_pruning(nodes, self, seq_id, sequence, ancestor_dominated) ==
    IF nodes[self]._depth = SeqLen(sequence)
    THEN [nodes |-> [nodes EXCEPT
                       ![self] = [@ EXCEPT !._sequence_dict = @ \cup {seq_id}]],
          node |-> self]
    ELSE LET node_id == get_position_id(sequence, nodes[self]._depth)
         IN IF node_id \in DOMAIN nodes[self]._child_dict
            THEN _add_sequence_to_child(
                     nodes, nodes[self]._child_dict[node_id], seq_id,
                     sequence, ancestor_dominated)
            ELSE _add_sequence_to_child(
                     _new_child_pruning(nodes, self, sequence, node_id,
                                        ancestor_dominated),
                     ChildRef(self, node_id), seq_id, sequence,
                     ancestor_dominated)

\* SeqNodePruning.add_sequence_recursive
SeqNodePruning_add_sequence_recursive(nodes, self, seq_id, sequence) ==
    add_sequence_pruning(nodes, self, seq_id, sequence,
                         is_dominated(nodes[self]))

\* called when the child has left the child dictionary
_del_child_from_hierarchy(nodes, self, child) ==
    IF nodes[self]._hierarchy # NoneHierarchy
    THEN IF Cardinality(DOMAIN nodes[self]._child_dict) <= 1
         THEN [nodes EXCEPT
                 ![self] = [@ EXCEPT !._hierarchy = NoneHierarchy]]
         ELSE [nodes EXCEPT
                 ![self] = [@ EXCEPT
                     !._hierarchy =
                         PartitionHierarchy_delete(
                             @, get_record(nodes[child]))]]
    ELSE nodes

\* SeqNodePruning._del_child
SeqNodePruning_del_child(nodes, self, child) ==
    _del_child_from_hierarchy(
        [nodes EXCEPT
           ![self] = [@ EXCEPT
               !._child_dict = DictDel(@, get_id(nodes[child]))]],
        self, child)

RECURSIVE _del_child_list_pruning(_, _, _)
_del_child_list_pruning(nodes, self, del_list) ==
    IF del_list = <<>> THEN nodes
    ELSE _del_child_list_pruning(
             SeqNodePruning_del_child(nodes, self, Head(del_list)), self,
             Tail(del_list))

\* the empty children leave and the flags of the others stay
_clean_empty_children_only(nodes, self, del_list) ==
    _del_child_list_pruning(nodes, self, del_list)

\* clean_recursive after its first loop: the empty children leave, and
\* the flags of the others are set again when a dominant child left
_clean_empty_children(nodes, self, del_list) ==
    IF /\ ~is_dominated(nodes[self])
       /\ \E i \in 1..Len(del_list) : ~is_dominated(nodes[del_list[i]])
    THEN _update_all_children(_del_child_list_pruning(nodes, self, del_list),
                              self)
    ELSE _del_child_list_pruning(nodes, self, del_list)

\* SeqNodePruning.clean_recursive
RECURSIVE SeqNodePruning_clean_recursive(_, _)
RECURSIVE _clean_children_pruning(_, _)
_clean_children_pruning(nodes, child_list) ==
    IF child_list = <<>> THEN nodes
    ELSE _clean_children_pruning(
             SeqNodePruning_clean_recursive(nodes, Head(child_list)),
             Tail(child_list))

_clean_after_children(nodes, self) ==
    _clean_empty_children(nodes, self,
                          SelectSeq(child_values(nodes[self]),
                                    LAMBDA child : is_empty(nodes[child])))

SeqNodePruning_clean_recursive(nodes, self) ==
    _clean_after_children(
        _clean_children_pruning(nodes, child_values(nodes[self])), self)

\* SeqNodePruning.get_dominant_children
SeqNodePruning_get_dominant_children(nodes, node) ==
    SelectSeq(child_values(node), LAMBDA child : ~is_dominated(nodes[child]))

(***************************************************************************)
(* operators/seqtree.py: SeqNode, the methods SeqNodePruning inherits       *)
(***************************************************************************)
get_dominant_children(node) ==
    LET id_list == PartitionHierarchy_get_best(node._hierarchy)
    IN [i \in 1..Len(id_list) |-> node._child_dict[id_list[i]]]

\* self.get_dominant_children() and self._del_child(child) by the class of
\* the node
dominant_children_of(nodes, self) ==
    IF is_pruning(nodes[self])
    THEN SeqNodePruning_get_dominant_children(nodes, nodes[self])
    ELSE get_dominant_children(nodes[self])

del_child_of(nodes, self, child) ==
    IF is_pruning(nodes[self]) THEN SeqNodePruning_del_child(nodes, self, child)
    ELSE _del_child(nodes, self, child)

RECURSIVE get_best_sequences_recursive(_, _)
RECURSIVE _best_of_children(_, _)
_best_of_children(nodes, child_list) ==
    IF child_list = <<>> THEN <<>>
    ELSE get_best_sequences_recursive(nodes, Head(child_list))
             \o _best_of_children(nodes, Tail(child_list))

get_best_sequences_recursive(nodes, self) ==
    SetToSeq(nodes[self]._sequence_dict)
        \o _best_of_children(nodes, dominant_children_of(nodes, self))

\* w carries the heap and the list of the sequences removed so far
_remove_merge_front(seq_list, r) ==
    [nodes |-> r.nodes, seq_list |-> r.seq_list \o seq_list]

_remove_merge(seq_list, r) ==
    [nodes |-> r.nodes, seq_list |-> seq_list \o r.seq_list]

_remove_child_if_empty(w, self, child) ==
    [w EXCEPT !.nodes = IF is_empty(@[child])
                        THEN del_child_of(@, self, child) ELSE @]

RECURSIVE remove_dominant_sequences(_, _)
RECURSIVE _remove_dominant_loop(_, _, _)
_remove_dominant_loop(w, self, child_list) ==
    IF child_list = <<>> THEN w
    ELSE _remove_dominant_loop(
             _remove_child_if_empty(
                 _remove_merge(w.seq_list,
                               remove_dominant_sequences(w.nodes,
                                                         Head(child_list))),
                 self, Head(child_list)),
             self, Tail(child_list))

remove_dominant_sequences(nodes, self) ==
    _remove_dominant_loop(
        [nodes |-> [nodes EXCEPT ![self] = [@ EXCEPT !._sequence_dict = {}]],
         seq_list |-> SetToSeq(nodes[self]._sequence_dict)],
        self, dominant_children_of(nodes, self))

\* the while loop of topk_sequences; an iteration that changes nothing
\* repeats for ever (hang)
RECURSIVE _topk_loop(_, _, _)
RECURSIVE _topk_step(_, _, _, _)
_topk_step(w, r, self, topk) ==
    IF /\ DOMAIN r.nodes = DOMAIN w.nodes
       /\ \A ref \in DOMAIN w.nodes : r.nodes[ref] = w.nodes[ref]
    THEN [w EXCEPT !.hang = TRUE]
    ELSE _topk_loop([nodes |-> r.nodes, seq_list |-> w.seq_list \o r.seq_list,
                     hang |-> FALSE], self, topk)

_topk_loop(w, self, topk) ==
    IF /\ Len(w.seq_list) < topk
       /\ Cardinality(DOMAIN w.nodes[self]._child_dict) > 0
    THEN _topk_step(w, remove_dominant_sequences(w.nodes, self), self, topk)
    ELSE w

_topk_slice(w, topk) == [w EXCEPT !.seq_list = Slice(@, 0, topk)]

\* tree carries the heap and the node the method is called on
topk_sequences(tree, topk) ==
    IF tree.nodes[tree.node]._sequence = NoneSeq
    THEN _topk_slice(_topk_loop([nodes |-> tree.nodes, seq_list |-> <<>>,
                                 hang |-> FALSE], tree.node, topk), topk)
    ELSE [nodes |-> tree.nodes, seq_list |-> <<>>, hang |-> FALSE]

\* _update_copy after its loop over the children: w carries the heap and
\* the child dictionary of self, which now holds the copies.  The new node
\* takes the attributes of self; self takes the copies of its sequence
\* dictionary, of its child dictionary and of its hierarchy.
\* hierarchy_copy: None when the node has no hierarchy
_hierarchy_copy(h) ==
    IF h = NoneHierarchy THEN [self |-> h, hierarchy |-> h]
    ELSE PartitionHierarchy_copy(h)

_update_copy_keep(w, self, node) ==
    [nodes |->
        [w.nodes EXCEPT
           ![node] = [w.nodes[self] EXCEPT
                        !._child_dict = w.child_dict,
                        !._hierarchy = _hierarchy_copy(@).self],
           ![self] = [w.nodes[self] EXCEPT
                        !._sequence_dict = w.nodes[self]._sequence_dict,
                        !._child_dict = w.child_dict,
                        !._hierarchy = _hierarchy_copy(@).hierarchy]],
     node |-> node]

_update_copy(w, self, node) ==
    [nodes |->
        [w.nodes EXCEPT
           ![node] = [w.nodes[self] EXCEPT
                        !._child_dict = w.child_dict,
                        !._hierarchy = _hierarchy_copy(@).self],
           ![self] = [w.nodes[self] EXCEPT
                        !._sequence_dict = w.nodes[self]._sequence_dict,
                        !._child_dict = w.nodes[self]._child_dict,
                        !._hierarchy = _hierarchy_copy(@).hierarchy]],
     node |-> node]

_put_child_copy(child_dict, child_id, r) ==
    [nodes |-> r.nodes, child_dict |-> DictPut(child_dict, child_id, r.node)]

\* SeqNode.copy, with the loop of _update_copy over the children
RECURSIVE SeqNode_copy(_, _)
RECURSIVE _copy_children(_, _, _)
_copy_children(w, child_id_list, child_dict_copy) ==
    IF child_id_list = <<>> THEN w
    ELSE _copy_children(
             _put_child_copy(w.child_dict, Head(child_id_list),
                             SeqNode_copy(w.nodes,
                                 child_dict_copy[Head(child_id_list)])),
             Tail(child_id_list), child_dict_copy)

SeqNode_copy(nodes, self) ==
    _update_copy(
        _copy_children(
            [nodes |-> DictPut(nodes, CopyRef(self),
                               SeqNode(nodes[self]._sequence, NoneNode)),
             child_dict |-> nodes[self]._child_dict],
            SetToSeq(DOMAIN nodes[self]._child_dict),
            nodes[self]._child_dict),
        self, CopyRef(self))

(***************************************************************************)
(* operators/seqtreeindex.py: SeqIndex                                     *)
(* The index refers to the sequences of the operand by their object ids;   *)
(* the sequence node dictionary maps the id of a sequence to its node.     *)
(***************************************************************************)
SeqIndex ==
    [_tree |-> RootRef("tree"),
     _sequence_node_dict |-> EmptyDict,
     nodes |-> [ref \in {RootRef("tree")} |-> SeqNode(NoneSeq, NoneNode)]]

\* SeqIndex(tcptheory, SEQ_ALG_SEQTREE_PRUNING)
SeqIndexPruning ==
    [_tree |-> RootRef("tree"),
     _sequence_node_dict |-> EmptyDict,
     nodes |-> [ref \in {RootRef("tree")} |->
                   SeqNodePruning(NoneSeq, NoneNode)]]

\* node.add_sequence_recursive(sequence) and node.clean_recursive() by the
\* class of the node
add_sequence_of(nodes, self, seq_id, sequence) ==
    IF is_pruning(nodes[self])
    THEN SeqNodePruning_add_sequence_recursive(nodes, self, seq_id, sequence)
    ELSE add_sequence_recursive(nodes, self, seq_id, sequence)

clean_of(nodes, self) ==
    IF is_pruning(nodes[self]) THEN SeqNodePruning_clean_recursive(nodes, self)
    ELSE clean_recursive(nodes, self)

\* w carries the sequence heap, the node heap and the sequence node dict
_add_sequence_put(w, seq_id, r) ==
    [w EXCEPT !.nodes = r.nodes,
              !._sequence_node_dict = DictPut(@, seq_id, r.node)]

_add_sequence(w, seq_id) ==
    _add_sequence_put(w, seq_id,
        add_sequence_of(w.nodes, RootRef("tree"), seq_id, w.heap[seq_id]))

\* the first loop of update: the counters of every indexed sequence are
\* read and restarted, and the sequence is listed to be deleted, inserted
\* again or moved
RECURSIVE _update_classify(_, _)
_update_classify(c, id_list) ==
    IF id_list = <<>> THEN c
    ELSE LET seq_id == Head(id_list)
             sequence == c.heap[seq_id]
         IN _update_classify(
                [heap |-> [c.heap EXCEPT ![seq_id] =
                              restart_inserted(restart_deleted(@))],
                 delete_list |->
                     IF sequence._deleted > 0
                     THEN Append(c.delete_list, seq_id) ELSE c.delete_list,
                 insert_list |->
                     IF sequence._deleted > 0 /\ SeqLen(sequence) > 0
                     THEN Append(c.insert_list, seq_id) ELSE c.insert_list,
                 tomove_list |->
                     IF ~(sequence._deleted > 0) /\ sequence._inserted > 0
                     THEN Append(c.tomove_list, seq_id) ELSE c.tomove_list],
                Tail(id_list))

\* the second loop of update, over the sequences of the operand
RECURSIVE _update_new(_, _, _)
_update_new(c, sequence_list, _sequence_node_dict) ==
    IF sequence_list = <<>> THEN c
    ELSE _update_new(
             IF Head(sequence_list) \notin DOMAIN _sequence_node_dict
             THEN [c EXCEPT
                     !.heap = [@ EXCEPT ![Head(sequence_list)] =
                                            restart_inserted(@)],
                     !.insert_list = Append(@, Head(sequence_list))]
             ELSE c,
             Tail(sequence_list), _sequence_node_dict)

RECURSIVE _update_delete(_, _)
_update_delete(w, delete_list) ==
    IF delete_list = <<>> THEN w
    ELSE _update_delete(
             [w EXCEPT
                !.nodes = delete_sequence(
                              @, w._sequence_node_dict[Head(delete_list)],
                              Head(delete_list)),
                !._sequence_node_dict = DictDel(@, Head(delete_list))],
             Tail(delete_list))

RECURSIVE _update_insert(_, _)
_update_insert(w, insert_list) ==
    IF insert_list = <<>> THEN w
    ELSE _update_insert(_add_sequence(w, Head(insert_list)),
                        Tail(insert_list))

\* the sequence stays at the node it was stored at
_update_move_put_stay(w, seq_id, node, r) == w

_update_move_put(w, seq_id, node, r) ==
    [w EXCEPT !.nodes = delete_sequence(r.nodes, node, seq_id),
              !._sequence_node_dict = DictPut(@, seq_id, r.node)]

\* tomove_list holds the pairs (sequence id, node) of the first loop
RECURSIVE _update_move(_, _)
_update_move(w, tomove_list) ==
    IF tomove_list = <<>> THEN w
    ELSE _update_move(
             _update_move_put(w, Head(tomove_list)[1], Head(tomove_list)[2],
                 add_sequence_of(w.nodes, Head(tomove_list)[2],
                                 Head(tomove_list)[1],
                                 w.heap[Head(tomove_list)[1]])),
             Tail(tomove_list))

_update_clean(w) == [w EXCEPT !.nodes = clean_of(@, RootRef("tree"))]

_update_apply(c, index) ==
    _update_clean(
        _update_move(
            _update_insert(
                _update_delete(
                    [heap |-> c.heap, nodes |-> index.nodes,
                     _sequence_node_dict |-> index._sequence_node_dict],
                    c.delete_list),
                c.insert_list),
            [i \in 1..Len(c.tomove_list) |->
                <<c.tomove_list[i],
                  index._sequence_node_dict[c.tomove_list[i]]>>]))

\* the nodes the index still refers to
RECURSIVE Descendants(_, _)
Descendants(nodes, ref) ==
    {ref} \cup UNION {Descendants(nodes, nodes[ref]._child_dict[child_id]) :
                         child_id \in DOMAIN nodes[ref]._child_dict}

LiveNodes(nodes, _tree, _sequence_node_dict) ==
    [ref \in Descendants(nodes, _tree) \cup Range(_sequence_node_dict) |->
        nodes[ref]]

_update_result(w, index) ==
    [heap |-> w.heap,
     index |-> [index EXCEPT
                  !.nodes = LiveNodes(w.nodes, index._tree,
                                      w._sequence_node_dict),
                  !._sequence_node_dict = w._sequence_node_dict]]

\* SeqIndex.update; returns the sequence heap and the index
SeqIndex_update(heap, index, sequence_list) ==
    _update_result(
        _update_apply(
            _update_new(
                _update_classify(
                    [heap |-> heap, delete_list |-> <<>>,
                     insert_list |-> <<>>, tomove_list |-> <<>>],
                    SetToSeq(DOMAIN index._sequence_node_dict)),
                sequence_list, index._sequence_node_dict),
            index),
        index)

SeqIndex_get_best_sequences_recursive(index) ==
    get_best_sequences_recursive(index.nodes, index._tree)

_topk_result(index, t) ==
    [index |-> [index EXCEPT
                  !.nodes = LiveNodes(t.nodes, index._tree,
                                      index._sequence_node_dict)],
     seq_list |-> t.seq_list, hang |-> t.hang]

\* SeqIndex.topk_sequences: the root is copied and the copy is taken
\* apart; returns the index, the sequences and whether the loop hangs
SeqIndex_topk_sequences(index, topk) ==
    _topk_result(index,
                 topk_sequences(SeqNode_copy(index.nodes, index._tree), topk))

(***************************************************************************)
(* operators/temporalpreference.py: TemporalPreferenceOp                   *)
(***************************************************************************)
SEQ_ALG_DEPTH_SEARCH == "depth_search"
SEQ_ALG_SEQTREE == "inc_seqtree"
SEQ_ALG_SEQTREE_PRUNING == "inc_seqtree_pruning"

NoneIndex == [None |-> 2]

TemporalPreferenceOp(tpref_alg, topk) ==
    [_timestamp |-> -1, _current_list |-> <<>>, _previous_list |-> <<>>,
     _sequence_list |-> <<>>, _top |-> topk, _tpref_alg |-> tpref_alg,
     _seqindex |-> IF tpref_alg = SEQ_ALG_DEPTH_SEARCH THEN NoneIndex
                   ELSE IF tpref_alg = SEQ_ALG_SEQTREE_PRUNING
                   THEN SeqIndexPruning
                   ELSE SeqIndex,
     hang |-> FALSE]

\* the inner loop of _get_dominant_dominated: seq against the others
RECURSIVE _dominant_inner(_, _, _)
_dominant_inner(heap, seq, v) ==
    IF v.sequence_list # <<>> /\ ~v.dominated
    THEN LET other_seq == Head(v.sequence_list)
         IN _dominant_inner(heap, seq,
                IF tcp_dominates_by_search(TCPTheoryRules, heap[seq],
                                           heap[other_seq])
                THEN [v EXCEPT !.sequence_list = Tail(@),
                               !.dominated_list = Append(@, other_seq)]
                ELSE IF tcp_dominates_by_search(TCPTheoryRules,
                                                heap[other_seq], heap[seq])
                THEN [v EXCEPT !.sequence_list = Tail(@),
                               !.dominated_list = Append(@, seq),
                               !.not_dominated_list = Append(@, other_seq),
                               !.dominated = TRUE]
                ELSE [v EXCEPT !.sequence_list = Tail(@),
                               !.not_dominated_list = Append(@, other_seq)])
    ELSE v

_dominant_next(seq, dominant_list, v) ==
    [sequence_list |-> v.sequence_list \o v.not_dominated_list,
     dominant_list |-> IF ~v.dominated THEN Append(dominant_list, seq)
                       ELSE dominant_list,
     dominated_list |-> v.dominated_list]

RECURSIVE _dominant_outer(_, _)
_dominant_outer(heap, u) ==
    IF u.sequence_list # <<>>
    THEN _dominant_outer(heap,
             _dominant_next(Head(u.sequence_list), u.dominant_list,
                 _dominant_inner(heap, Head(u.sequence_list),
                     [sequence_list |-> Tail(u.sequence_list),
                      not_dominated_list |-> <<>>,
                      dominated_list |-> u.dominated_list,
                      dominated |-> FALSE])))
    ELSE u

_get_dominant_dominated(heap, sequence_list) ==
    _dominant_outer(heap, [sequence_list |-> sequence_list,
                           dominant_list |-> <<>>, dominated_list |-> <<>>])

RECURSIVE _topk_search_loop(_, _, _, _)
RECURSIVE _topk_search_step(_, _, _, _)
_topk_search_step(heap, topk_list, u, top) ==
    _topk_search_loop(heap, topk_list \o u.dominant_list, u.dominated_list,
                      top)

_topk_search_loop(heap, topk_list, dominated_list, top) ==
    IF Len(topk_list) < top /\ Len(dominated_list) > 0
    THEN _topk_search_step(heap, topk_list,
                           _get_dominant_dominated(heap, dominated_list), top)
    ELSE Slice(topk_list, 0, top)

_get_topk_search(heap, sequence_list, top) ==
    _topk_search_loop(heap, <<>>, sequence_list, top)

_get_best_search(heap, sequence_list) ==
    _get_dominant_dominated(heap, sequence_list).dominant_list

_sequence_list_to_record_list(heap, sequence_list) ==
    Flatten([i \in 1..Len(sequence_list) |->
                get_record_list(heap[sequence_list[i]])])

\* the operator after can_run and the body of run
_run_done(heap, op, sequence_list, timestamp) ==
    [heap |-> heap,
     op |-> [op EXCEPT
               !._timestamp = timestamp,
               !._previous_list = op._current_list,
               !._sequence_list = sequence_list,
               !._current_list =
                   _sequence_list_to_record_list(heap, sequence_list)]]

_run_best(u, op, timestamp) ==
    _run_done(u.heap, [op EXCEPT !._seqindex = u.index],
              SeqIndex_get_best_sequences_recursive(u.index), timestamp)

_run_topk_done(heap, op, t, timestamp) ==
    IF t.hang THEN [heap |-> heap, op |-> [op EXCEPT !.hang = TRUE]]
    ELSE _run_done(heap, [op EXCEPT !._seqindex = t.index], t.seq_list,
                   timestamp)

_run_topk(u, op, timestamp) ==
    _run_topk_done(u.heap, op, SeqIndex_topk_sequences(u.index, op._top),
                   timestamp)

\* TemporalPreferenceOp.run; returns the sequence heap and the operator
TemporalPreferenceOp_run(heap, op, seq_list, operand_timestamp, timestamp) ==
    IF can_run(op, <<operand_timestamp>>, timestamp)
    THEN IF op._top = 0 THEN _run_done(heap, op, <<>>, timestamp)
         ELSE IF op._top > 0
         THEN IF op._tpref_alg = SEQ_ALG_DEPTH_SEARCH
              THEN _run_done(heap, op,
                             _get_topk_search(heap, seq_list, op._top),
                             timestamp)
              ELSE _run_topk(SeqIndex_update(heap, op._seqindex, seq_list),
                             op, timestamp)
         ELSE IF op._tpref_alg = SEQ_ALG_DEPTH_SEARCH
              THEN _run_done(heap, op, _get_best_search(heap, seq_list),
                             timestamp)
              ELSE _run_best(SeqIndex_update(heap, op._seqindex, seq_list),
                             op, timestamp)
    ELSE [heap |-> heap, op |-> op]

(***************************************************************************)
(* The three hierarchies under the same history of updates                 *)
(***************************************************************************)
MaxRecordId == 3
MaxCopies == 2
MaxListLen == 2

RecordLists == UNION {[1..n -> Records] : n \in 0..MaxListLen}

CountIn(list, x) == Cardinality({i \in 1..Len(list) : list[i] = x})

\* the parts of the state a specification leaves out stay as constructed
IdleH ==
    /\ hier_anc = HierarchyAncestorsInit
    /\ hier_part = HierarchyPartitionInit
    /\ hier_graph = HierarchyGraphInit
    /\ hier_log = [net |-> [rec \in Records |-> 0], assigned |-> EmptyDict]

IdleS ==
    /\ now = -1
    /\ window = <<-1, 1>>
    /\ plan_inc = <<>>
    /\ plan_naive = <<>>

IdleT ==
    /\ plan_search = <<>>
    /\ plan_tree = <<>>
    /\ plan_topk = <<>>
    /\ plan_sub = <<>>
    /\ plan_prune = <<>>
    /\ plan_prune_topk = <<>>

IdleM ==
    /\ mgr = <<>>
    /\ tables = <<>>
    /\ queries = <<>>
    /\ operators = <<>>
    /\ run_log = <<>>

IdleV ==
    /\ interval_call = <<>>
    /\ temporal_call = <<>>
    /\ clean_call = <<>>
    /\ split_call = <<>>

IdleP ==
    /\ parsed_rules = <<>>
    /\ pref_theory = <<>>
    /\ pref_operand = <<>>
    /\ pref_best = <<>>
    /\ pref_search = <<>>
    /\ pref_compare = <<>>

InitH == IdleH /\ IdleS /\ IdleT /\ IdleM /\ IdleP /\ IdleV

\* the log after update(delete_list, insert_list) left the hierarchy h
Logged(log, h, delete_list, insert_list) ==
    [net |-> [rec \in Records |->
                 log.net[rec] - CountIn(delete_list, rec)
                     + CountIn(insert_list, rec)],
     assigned |-> [id \in DOMAIN log.assigned \cup DOMAIN h._id_dict |->
                      IF id \in DOMAIN log.assigned THEN log.assigned[id]
                      ELSE h._id_dict[id]]]

\* how many copies of the record the hierarchies hold
LiveCount(rec) ==
    IF rec \in Range(hier_graph._id_dict)
    THEN hier_graph._count_dict[_tuple_id(hier_graph, rec)] ELSE 0

\* update(delete_list, insert_list) on each hierarchy; the deleted records
\* are present
HierarchyUpdate ==
    \E delete_list \in RecordLists, insert_list \in RecordLists :
        /\ ~hier_anc.error
        /\ \A rec \in Range(delete_list) :
              CountIn(delete_list, rec) <= LiveCount(rec)
        /\ \A rec \in Range(insert_list) :
              LiveCount(rec) - CountIn(delete_list, rec)
                  + CountIn(insert_list, rec) <= MaxCopies
        /\ hier_graph._current_id
              + Cardinality({rec \in Range(insert_list) :
                    LiveCount(rec) = CountIn(delete_list, rec)})
                  <= MaxRecordId + 1
        /\ hier_anc' = Ancestors_update(hier_anc, delete_list, insert_list)
        /\ hier_part' = Partition_update(hier_part, delete_list, insert_list)
        /\ hier_graph' = Graph_update(hier_graph, delete_list, insert_list)
        /\ hier_log' = Logged(hier_log, hier_graph', delete_list, insert_list)
        /\ UNCHANGED <<varsS, varsT, varsM, varsP, varsV>>

NextH == HierarchyUpdate

SpecH == InitH /\ [][NextH]_vars

\* C1: after every update the three hierarchies return the same set of
\* records from get_best_records()
C1_SameBestRecords ==
    /\ DOMAIN get_best_records(hier_anc) = DOMAIN get_best_records(hier_graph)
    /\ DOMAIN get_best_records(hier_part) = DOMAIN get_best_records(hier_graph)

(***************************************************************************)
(* CONSEQ and ENDSEQ, incremental and naive, over SEQ                      *)
(***************************************************************************)
MaxTick == 4

StreamRecords == {[id |-> 1, a |-> 1, b |-> 1], [id |-> 1, a |-> 2, b |-> 1],
                  [id |-> 2, a |-> 1, b |-> 1]}

\* the records a stream inserts at a tick: none, one, or two in the order
\* of (id, a); two records of one identifier arrive in the same tick
StreamLists ==
    {<<>>} \cup {<<r>> : r \in StreamRecords}
    \cup {rr \in StreamRecords \X StreamRecords :
                \/ rr[1].id < rr[2].id
                \/ (rr[1].id = rr[2].id /\ rr[1].a < rr[2].a)}

\* [RANGE bound, SLIDE slide] of SEQ; bound -1 is UNBOUNDED
Windows == {<<-1, 1>>, <<2, 1>>, <<3, 1>>, <<3, 2>>, <<1, 2>>}

Plan(operator_name, subseq_alg) ==
    [heap |-> EmptyDict, seqop |-> SeqOpInit,
     subop |-> SubseqOpInit(operator_name, subseq_alg)]

\* objects no operator refers to any more leave the heap
Plan_collect(seqop, r) ==
    [heap |-> Collect(r.heap,
                  Range(seqop._sequence_dict)
                      \cup Range(r.op._sequence_list)
                      \cup UNION {Range(r.op._subsequence_dict[k]) :
                              k \in DOMAIN r.op._subsequence_dict}),
     seqop |-> seqop, subop |-> r.op]

\* run_father of SEQ: its father runs in the same call
Plan_run_father(r, subop, timestamp) ==
    Plan_collect(r.op,
                 SubseqOp_run(r.heap, subop, r.op._sequence_list,
                              r.op._timestamp, timestamp))

\* the stream runs at the timestamp, then SEQ
Plan_run(plan, record_list, timestamp, range_slide) ==
    Plan_run_father(
        SeqOp_run(plan.heap, plan.seqop, record_list, timestamp, timestamp,
                  range_slide[1], range_slide[2]),
        plan.subop, timestamp)

InitS ==
    /\ IdleH
    /\ IdleP
    /\ IdleV
    /\ IdleM
    /\ IdleT
    /\ now = -1
    /\ window \in Windows
    /\ \E operator_name \in {"CONSEQ", "ENDSEQ"} :
          /\ plan_inc = Plan(operator_name, SUBSEQ_ALG_INCREMENTAL)
          /\ plan_naive = Plan(operator_name, SUBSEQ_ALG_NAIVE)

Tick ==
    /\ now < MaxTick
    /\ ~plan_inc.subop.error
    /\ \E record_list \in StreamLists :
          /\ plan_inc' = Plan_run(plan_inc, record_list, now + 1, window)
          /\ plan_naive' = Plan_run(plan_naive, record_list, now + 1, window)
    /\ now' = now + 1
    /\ UNCHANGED <<window, varsH, varsT, varsM, varsP, varsV>>

NextS == Tick

SpecS == InitS /\ [][NextS]_vars

\* what a plan outputs: its sub-sequences in list order
SeqView(seq) ==
    [identifier |-> seq._identifier_record, positions |-> seq._position_list,
     timestamps |-> seq._timestamp_list]

PlanOutput(plan) ==
    [i \in 1..Len(plan.subop._sequence_list) |->
        SeqView(plan.heap[plan.subop._sequence_list[i]])]

\* C2: at every tick incremental CONSEQ outputs the same list of
\* sub-sequences, position for position, as naive CONSEQ
C2_ConseqIncrementalIsNaive ==
    plan_inc # <<>> /\ plan_inc.subop._operator_name = "CONSEQ"
        => /\ ~plan_inc.subop.error
           /\ PlanOutput(plan_inc) = PlanOutput(plan_naive)

\* incremental CONSEQ has shortened a sub-sequence at its front and
\* lengthened it at its end, and outputs several sub-sequences
C2_Witness ==
    /\ plan_inc # <<>>
    /\ plan_inc.subop._operator_name = "CONSEQ"
    /\ Len(plan_inc.subop._sequence_list) >= 2
    /\ \E id \in Range(plan_inc.subop._sequence_list) :
          /\ plan_inc.heap[id]._deleted > 0
          /\ plan_inc.heap[id]._inserted > 0

\* C3: at every tick incremental ENDSEQ outputs the same list of suffix
\* sub-sequences, position for position, as naive ENDSEQ
C3_EndseqIncrementalIsNaive ==
    plan_inc # <<>> /\ plan_inc.subop._operator_name = "ENDSEQ"
        => /\ ~plan_inc.subop.error
           /\ PlanOutput(plan_inc) = PlanOutput(plan_naive)

\* incremental ENDSEQ has dropped the longest suffix it built for a
\* sequence and lengthened a suffix it kept
C3_Witness ==
    /\ plan_inc # <<>>
    /\ plan_inc.subop._operator_name = "ENDSEQ"
    /\ \E id \in Range(plan_inc.subop._sequence_list) :
          /\ plan_inc.heap[id]._inserted > 0
          /\ SubseqId("ENDSEQ", id, id[3], 1)
                 \notin Range(plan_inc.subop._sequence_list)

(***************************************************************************)
(* BESTSEQ by depth search, BESTSEQ by the sequence tree and TOPKSEQ by    *)
(* the sequence tree, over SEQ, the same stream and the same window        *)
(***************************************************************************)
MaxTickT == 1

Identifiers == {1, 2}
PositionRecords ==
    {[a |-> 1, b |-> 1], [a |-> 2, b |-> 1], [a |-> 2, b |-> 2]}

\* the records a stream inserts at a tick: at most one for an identifier,
\* in the order of the identifiers
TStreamLists ==
    UNION {{[i \in 1..Cardinality(id_set) |->
                [id |-> IntSetToSeq(id_set)[i],
                 a |-> f[IntSetToSeq(id_set)[i]].a,
                 b |-> f[IntSetToSeq(id_set)[i]].b]] :
              f \in [id_set -> PositionRecords]} :
           id_set \in SUBSET Identifiers}

WindowsT == {<<-1, 1>>, <<1, 1>>}

\* the k of TOPKSEQ
TopKs == {1, 2}

TPlan(tpref_alg, topk) ==
    [heap |-> EmptyDict, seqop |-> SeqOpInit,
     tpop |-> TemporalPreferenceOp(tpref_alg, topk)]

\* the sequences the index refers to
IndexedSequences(op) ==
    IF op._seqindex = NoneIndex THEN {}
    ELSE DOMAIN op._seqindex._sequence_node_dict

\* objects no operator refers to any more leave the heap
TPlan_collect(seqop, r) ==
    [heap |-> Collect(r.heap,
                  Range(seqop._sequence_dict)
                      \cup Range(r.op._sequence_list)
                      \cup IndexedSequences(r.op)),
     seqop |-> seqop, tpop |-> r.op]

\* run_father of SEQ: its father runs in the same call
TPlan_run_father(r, tpop, timestamp) ==
    TPlan_collect(r.op,
                  TemporalPreferenceOp_run(r.heap, tpop, r.op._sequence_list,
                                           r.op._timestamp, timestamp))

TPlan_run(plan, record_list, timestamp, range_slide) ==
    TPlan_run_father(
        SeqOp_run(plan.heap, plan.seqop, record_list, timestamp, timestamp,
                  range_slide[1], range_slide[2]),
        plan.tpop, timestamp)

InitT ==
    /\ IdleH
    /\ IdleP
    /\ IdleV
    /\ IdleM
    /\ plan_inc = <<>>
    /\ plan_naive = <<>>
    /\ now = -1
    /\ window \in WindowsT
    /\ plan_search = TPlan(SEQ_ALG_DEPTH_SEARCH, -1)
    /\ plan_tree = TPlan(SEQ_ALG_SEQTREE, -1)
    /\ \E topk \in TopKs : plan_topk = TPlan(SEQ_ALG_SEQTREE, topk)
    /\ plan_sub = <<>>
    /\ plan_prune = <<>>
    /\ plan_prune_topk = <<>>

TickT ==
    /\ now < MaxTickT
    /\ ~plan_topk.tpop.hang
    /\ \E record_list \in TStreamLists :
          /\ plan_search' = TPlan_run(plan_search, record_list, now + 1,
                                      window)
          /\ plan_tree' = TPlan_run(plan_tree, record_list, now + 1, window)
          /\ plan_topk' = TPlan_run(plan_topk, record_list, now + 1, window)
    /\ now' = now + 1
    /\ UNCHANGED <<window, plan_inc, plan_naive, plan_sub, varsN, varsH, varsM,
                   varsP, varsV>>

NextT == TickT

SpecT == InitT /\ [][NextT]_vars

\* C4: at every tick BESTSEQ returns the same set of sequences by the
\* sequence tree as by depth search
C4_SeqTreeIsDepthSearch ==
    plan_tree # <<>>
        => Range(plan_tree.tpop._sequence_list)
               = Range(plan_search.tpop._sequence_list)

RECURSIVE _peel_delete(_, _)
_peel_delete(index, seq_list) ==
    IF seq_list = <<>> THEN index
    ELSE _peel_delete(
             [index EXCEPT
                !.nodes = delete_sequence(
                              @, index._sequence_node_dict[Head(seq_list)],
                              Head(seq_list)),
                !._sequence_node_dict = DictDel(@, Head(seq_list))],
             Tail(seq_list))

_peel_clean(index) ==
    [index EXCEPT !.nodes = clean_recursive(@, index._tree)]

RECURSIVE peel_sequences(_)
_peel_next(index, seq_list) ==
    IF seq_list = <<>> THEN <<>>
    ELSE seq_list \o peel_sequences(_peel_clean(_peel_delete(index, seq_list)))

peel_sequences(index) ==
    _peel_next(index, SeqIndex_get_best_sequences_recursive(index))

\* C7: with k at least the number of indexed sequences TOPKSEQ returns
\* every indexed sequence once, in the order of the repeated best sequences
C7_TopkIsPeeling ==
    (/\ plan_topk # <<>>
     /\ plan_topk.tpop._top
            >= Cardinality(DOMAIN plan_topk.tpop._seqindex
                                      ._sequence_node_dict))
        => /\ plan_topk.tpop._sequence_list
                  = peel_sequences(plan_topk.tpop._seqindex)
           /\ Range(plan_topk.tpop._sequence_list)
                  = DOMAIN plan_topk.tpop._seqindex._sequence_node_dict
           /\ Len(plan_topk.tpop._sequence_list)
                  = Cardinality(DOMAIN plan_topk.tpop._seqindex
                                           ._sequence_node_dict)

\* the second sequence was returned by a second round
C7_Witness ==
    /\ plan_topk # <<>>
    /\ Len(plan_topk.tpop._sequence_list) = 2
    /\ Len(SeqIndex_get_best_sequences_recursive(plan_topk.tpop._seqindex))
           = 1

(***************************************************************************)
(* BESTSEQ by the sequence tree over CONSEQ or ENDSEQ over SEQ             *)
(***************************************************************************)
IPlan(operator_name, subseq_alg) ==
    [heap |-> EmptyDict, seqop |-> SeqOpInit,
     subop |-> SubseqOpInit(operator_name, subseq_alg),
     tpop |-> TemporalPreferenceOp(SEQ_ALG_SEQTREE, -1)]

\* objects no operator refers to any more leave the heap
IPlan_collect(seqop, subop, r) ==
    [heap |-> Collect(r.heap,
                  Range(seqop._sequence_dict)
                      \cup Range(subop._sequence_list)
                      \cup UNION {Range(subop._subsequence_dict[k]) :
                              k \in DOMAIN subop._subsequence_dict}
                      \cup Range(r.op._sequence_list)
                      \cup IndexedSequences(r.op)),
     seqop |-> seqop, subop |-> subop, tpop |-> r.op]

\* run_father of CONSEQ and ENDSEQ; an exception of the operator ends the
\* call before its father runs
ISub_run_father(seqop, r, tpop, timestamp) ==
    IPlan_collect(seqop, r.op,
        IF r.op.error THEN [heap |-> r.heap, op |-> tpop]
        ELSE TemporalPreferenceOp_run(r.heap, tpop, r.op._sequence_list,
                                      r.op._timestamp, timestamp))

\* run_father of SEQ
IPlan_run_father(r, subop, tpop, timestamp) ==
    ISub_run_father(r.op,
                    SubseqOp_run(r.heap, subop, r.op._sequence_list,
                                 r.op._timestamp, timestamp),
                    tpop, timestamp)

IPlan_run(plan, record_list, timestamp, range_slide) ==
    IPlan_run_father(
        SeqOp_run(plan.heap, plan.seqop, record_list, timestamp, timestamp,
                  range_slide[1], range_slide[2]),
        plan.subop, plan.tpop, timestamp)

InitI ==
    /\ IdleH
    /\ IdleP
    /\ IdleV
    /\ IdleM
    /\ plan_inc = <<>>
    /\ plan_naive = <<>>
    /\ now = -1
    /\ window \in WindowsT
    /\ plan_search = <<>>
    /\ plan_tree = <<>>
    /\ plan_topk = <<>>
    /\ plan_prune = <<>>
    /\ plan_prune_topk = <<>>
    /\ \E operator_name \in {"CONSEQ", "ENDSEQ"} :
          \E subseq_alg \in {SUBSEQ_ALG_INCREMENTAL, SUBSEQ_ALG_NAIVE} :
             plan_sub = IPlan(operator_name, subseq_alg)

TickI ==
    /\ now < MaxTickT
    /\ ~plan_sub.subop.error
    /\ \E record_list \in TStreamLists :
          plan_sub' = IPlan_run(plan_sub, record_list, now + 1, window)
    /\ now' = now + 1
    /\ UNCHANGED <<window, plan_inc, plan_naive, plan_search, plan_tree,
                   plan_topk, varsN, varsH, varsM, varsP, varsV>>

NextI == TickI

SpecI == InitI /\ [][NextI]_vars

\* C5: after every tick the sequences the index holds are the sequences of
\* the operand's current sequence list, and every sequence BESTSEQ returns
\* is one of them
C5_IndexHoldsLiveSequences ==
    plan_sub # <<>> /\ ~plan_sub.subop.error
        => /\ IndexedSequences(plan_sub.tpop)
                  = Range(plan_sub.subop._sequence_list)
           /\ Range(plan_sub.tpop._sequence_list)
                  \subseteq Range(plan_sub.subop._sequence_list)

(***************************************************************************)
(* control/attribute.py, control/table.py, control/query.py and the       *)
(* operators of operators/basic.py, window.py and bag.py                   *)
(* w carries the tables, the queries, the operators and the log of the     *)
(* operators executed (debug_run).  A record maps attributes to values.    *)
(***************************************************************************)
NoneName == "None"

Attribute(name, table) == [_name |-> name, _table |-> table]

STREAM_SYM == "STREAM"
TABLE_SYM == "TABLE"

\* Table.__init__ with its attributes
Table(table_type, attribute_list) ==
    [_result_type |-> table_type, _attribute_list |-> attribute_list,
     _consumer_list |-> <<>>, _timestamp |-> -1, _current_list |-> <<>>,
     _inserted_list |-> <<>>, _deleted_list |-> <<>>]

add_consumer(table, consumer) ==
    [table EXCEPT !._consumer_list = Append(@, consumer)]

\* Table._update_record of a stream, for the lines of the file that carry
\* the timestamp of the table
RECURSIVE Table_update_record(_, _)
Table_update_record(table, file_records) ==
    IF file_records = <<>> THEN table
    ELSE Table_update_record(
             [table EXCEPT !._inserted_list = Append(@, Head(file_records))],
             Tail(file_records))

\* Table.next_timestamp with _update_record_list
next_timestamp(table, file_records) ==
    Table_update_record(
        [table EXCEPT !._timestamp = @ + 1, !._inserted_list = <<>>,
                      !._deleted_list = <<>>],
        file_records)

\* operators/basic.py: _map_from_table
_map_from_table(record_list, attribute_list) ==
    [i \in 1..Len(record_list) |->
        [att \in Range(attribute_list) |->
            record_list[i][Attribute(att._name, NoneName)]]]

\* control/query.py: Query._map_to_query; of two attributes of the plan
\* with one name the later one gives the value
_map_to_query(record_list, attribute_list) ==
    [i \in 1..Len(record_list) |->
        [query_att \in {Attribute(att._name, NoneName) :
                            att \in Range(attribute_list)} |->
            record_list[i][
                attribute_list[
                    CHOOSE k \in 1..Len(attribute_list) :
                        /\ attribute_list[k]._name = query_att._name
                        /\ \A j \in (k + 1)..Len(attribute_list) :
                              attribute_list[j]._name # query_att._name]]]]

\* operators/bag.py: _rename_record_attributes
_rename_record_attributes(record_list, old_attribute_list, new_attribute_list) ==
    [i \in 1..Len(record_list) |->
        [new_att \in Range(new_attribute_list) |->
            record_list[i][
                old_attribute_list[
                    CHOOSE k \in 1..Len(old_attribute_list) :
                        /\ new_attribute_list[k] = new_att
                        /\ \A j \in (k + 1)..Len(old_attribute_list) :
                              new_attribute_list[j] # new_att]]]]

\* operators/bag.py: _group_equal_records; the key of a group is the record
_group_equal_records(record_list) ==
    [rec_key \in Range(record_list) |->
        SelectSeq(record_list, LAMBDA rec : rec = rec_key)]

_bag_except_key(left_dict, right_dict, rec_key) ==
    IF rec_key \in DOMAIN right_dict
    THEN IF Len(left_dict[rec_key]) > Len(right_dict[rec_key])
         THEN SubSeq(left_dict[rec_key], 1,
                     Len(left_dict[rec_key]) - Len(right_dict[rec_key]))
         ELSE <<>>
    ELSE left_dict[rec_key]

RECURSIVE _bag_except_loop(_, _, _)
_bag_except_loop(key_list, left_dict, right_dict) ==
    IF key_list = <<>> THEN <<>>
    ELSE _bag_except_key(left_dict, right_dict, Head(key_list))
             \o _bag_except_loop(Tail(key_list), left_dict, right_dict)

\* operators/bag.py: bag_except
bag_except_left(left_list, right_list) ==
    SelectSeq(left_list, LAMBDA rec : rec \notin Range(right_list))

bag_except(left_list, right_list) ==
    _bag_except_loop(SetToSeq(Range(left_list)),
                     _group_equal_records(left_list),
                     _group_equal_records(right_list))

NoneOp == "None"

\* Operator.__init__ with the operands, the father and the attributes the
\* planner gives the operator
Operator(operator_name, operand_list, father, attribute_list) ==
    [_operator_name |-> operator_name, _operand_list |-> operand_list,
     _father |-> father, _attribute_list |-> attribute_list,
     _timestamp |-> -1, _current_list |-> <<>>, _previous_list |-> <<>>]

\* TableOp.__init__
TableOp(name, table_name, father) ==
    [_operator_name |-> "TABLE", _operand_list |-> <<>>,
     _father |-> father, _attribute_list |-> <<Attribute("A", name)>>,
     _timestamp |-> -1, _current_list |-> <<>>, _previous_list |-> <<>>,
     _inserted_list |-> <<>>, _deleted_list |-> <<>>,
     _table |-> table_name]

\* WindowOp.__init__
WindowOp(operand, bound, slide, father, attribute_list) ==
    [_operator_name |-> "WIN", _operand_list |-> <<operand>>,
     _father |-> father, _attribute_list |-> attribute_list,
     _timestamp |-> -1, _current_list |-> <<>>, _previous_list |-> <<>>,
     _inserted_list |-> <<>>, _deleted_list |-> <<>>,
     _bound |-> bound, _slide |-> slide,
     _history_dict |-> EmptyDict, _start_end_dict |-> EmptyDict]

\* SelectionOp.__init__ with its conditions
SelectionOp(operand, condition_list, father, attribute_list) ==
    [_operator_name |-> "SELECT", _operand_list |-> <<operand>>,
     _father |-> father, _attribute_list |-> attribute_list,
     _timestamp |-> -1, _current_list |-> <<>>, _previous_list |-> <<>>,
     _condition_list |-> condition_list]

get_current_list(operator_dict, self) == operator_dict[self]._current_list

\* get_inserted_list of Operator, and of TableOp and WindowOp
get_inserted_list(operator_dict, self) ==
    IF operator_dict[self]._operator_name \in {"TABLE", "WIN"}
    THEN operator_dict[self]._inserted_list
    ELSE bag_except(operator_dict[self]._current_list,
                    operator_dict[self]._previous_list)

\* get_deleted_list of Operator, and of TableOp and WindowOp
get_deleted_list(operator_dict, self) ==
    IF operator_dict[self]._operator_name \in {"TABLE", "WIN"}
    THEN operator_dict[self]._deleted_list
    ELSE bag_except(operator_dict[self]._previous_list,
                    operator_dict[self]._current_list)

NoneFile == [None |-> 3]

\* Query.__init__ with the plan is_consistent builds and set_output
Query(plan, attribute_list, output_file, show_changes) ==
    [_plan |-> plan, _consumer_list |-> <<>>, _timestamp |-> -1,
     _attribute_list |-> attribute_list, _output_file |-> output_file,
     _show_changes |-> show_changes,
     _current_list |-> <<>>, _inserted_list |-> <<>>,
     _deleted_list |-> <<>>, _current_list_timestamp |-> -1,
     _inserted_list_timestamp |-> -1, _deleted_list_timestamp |-> -1]

\* Query.update_timestamp
Query_update_timestamp_late(q, operator_dict, timestamp) ==
    IF operator_dict[q._plan]._timestamp > timestamp /\ q._timestamp < timestamp
    THEN [q EXCEPT !._timestamp = timestamp]
    ELSE q

Query_update_timestamp(q, operator_dict, timestamp) ==
    IF operator_dict[q._plan]._timestamp = timestamp /\ q._timestamp < timestamp
    THEN [q EXCEPT !._timestamp = timestamp]
    ELSE q

_get_inserted_list(q, operator_dict) ==
    IF q._inserted_list_timestamp < q._timestamp
    THEN [q EXCEPT
            !._inserted_list =
                _map_to_query(get_inserted_list(operator_dict, q._plan),
                              operator_dict[q._plan]._attribute_list),
            !._inserted_list_timestamp = q._timestamp]
    ELSE q

Query_get_inserted_list(q, operator_dict) ==
    CHOOSE r \in {_get_inserted_list(v, operator_dict) : v \in {q}} : TRUE

_get_deleted_list(q, operator_dict) ==
    IF q._deleted_list_timestamp < q._timestamp
    THEN [q EXCEPT
            !._deleted_list =
                _map_to_query(get_deleted_list(operator_dict, q._plan),
                              operator_dict[q._plan]._attribute_list),
            !._deleted_list_timestamp = q._timestamp]
    ELSE q

Query_get_deleted_list(q, operator_dict) ==
    CHOOSE r \in {_get_deleted_list(v, operator_dict) : v \in {q}} : TRUE

_get_current_list(q, operator_dict) ==
    IF q._current_list_timestamp < q._timestamp
    THEN [q EXCEPT
            !._current_list =
                _map_to_query(get_current_list(operator_dict, q._plan),
                              operator_dict[q._plan]._attribute_list),
            !._current_list_timestamp = q._timestamp]
    ELSE q

Query_get_current_list(q, operator_dict) ==
    CHOOSE r \in {_get_current_list(v, operator_dict) : v \in {q}} : TRUE

\* Query._map_to_output: a row of the output file
_map_to_output(record_list, flag, timestamp) ==
    [i \in 1..Len(record_list) |->
        [FLAG |-> flag, TS |-> timestamp,
         rec |-> [name \in {att._name : att \in DOMAIN record_list[i]} |->
                     record_list[i][CHOOSE att \in DOMAIN record_list[i] :
                                        att._name = name]]]]

_write_changes_rows(q) ==
    [q EXCEPT !._output_file =
        [rows |-> @.rows
                      \o _map_to_output(q._deleted_list, "-", q._timestamp)
                      \o _map_to_output(q._inserted_list, "+",
                                        q._timestamp)]]

_write_changes(q) ==
    CHOOSE r \in {_write_changes_rows(v) : v \in {q}} : TRUE

_write_current_rows(q) ==
    [q EXCEPT !._output_file =
        [rows |-> @.rows
                      \o _map_to_output(q._current_list, "None",
                                        q._timestamp)]]

_write_current(q) ==
    CHOOSE r \in {_write_current_rows(v) : v \in {q}} : TRUE

\* Query.output
_output(q, operator_dict) ==
    IF q._output_file = NoneFile THEN q
    ELSE IF q._show_changes
    THEN _write_changes(
             Query_get_inserted_list(Query_get_deleted_list(q, operator_dict),
                                     operator_dict))
    ELSE _write_current(Query_get_current_list(q, operator_dict))

Query_output(q, operator_dict) ==
    CHOOSE r \in {_output(v, operator_dict) : v \in {q}} : TRUE

\* Operator.can_run: its assignments
_can_run_assign(op, timestamp) ==
    [op EXCEPT !._previous_list = op._current_list,
               !._current_list = <<>>,
               !._timestamp = timestamp]

OperandTimestamps(operator_dict, self) ==
    [i \in 1..Len(operator_dict[self]._operand_list) |->
        operator_dict[operator_dict[self]._operand_list[i]]._timestamp]

\* Operator.debug_run: the log tells the operator and its timestamp
_debug_run(w, self) ==
    [w EXCEPT !.run_log = Append(@, <<self, w.operators[self]._timestamp>>)]

debug_run(w, self) ==
    CHOOSE r \in {_debug_run(v, self) : v \in {w}} : TRUE

_put_operator(w, self, op) ==
    [w EXCEPT !.operators = [@ EXCEPT ![self] = op]]

\* TableOp.run: the assignments from the lists of the table or query
TableOp_assign(op, table, timestamp) ==
    [op EXCEPT
       !._timestamp = timestamp,
       !._current_list =
           _map_from_table(table._current_list, op._attribute_list),
       !._inserted_list =
           _map_from_table(table._inserted_list, op._attribute_list),
       !._deleted_list =
           _map_from_table(table._deleted_list, op._attribute_list)]

_table_read_lists(w, self, timestamp, name, q) ==
    [w EXCEPT !.queries = [@ EXCEPT ![name] = q],
              !.operators =
                  [@ EXCEPT ![self] = TableOp_assign(@, q, timestamp)]]

_table_read_query(w, self, timestamp, name, q) ==
    CHOOSE r \in {_table_read_lists(w, self, timestamp, name, v) : v \in {q}} : TRUE

_table_read(w, self, timestamp, name) ==
    IF name \in DOMAIN w.tables
    THEN _put_operator(w, self,
             TableOp_assign(w.operators[self], w.tables[name], timestamp))
    ELSE _table_read_query(w, self, timestamp, name,
             Query_get_deleted_list(
                 Query_get_inserted_list(
                     Query_get_current_list(w.queries[name], w.operators),
                     w.operators),
                 w.operators))

\* get_timestamp of a table or a query of the table dictionary
get_timestamp(w, name) ==
    IF name \in DOMAIN w.tables THEN w.tables[name]._timestamp
    ELSE w.queries[name]._timestamp

\* WindowOp._update_record_list, bounded: the expired records
_window_delete(op, expired_list) ==
    [op EXCEPT
       !._deleted_list =
           Flatten([i \in 1..Len(expired_list) |->
                       op._history_dict[expired_list[i]]]),
       !._history_dict =
           [ts \in DOMAIN @ \ Range(expired_list) |-> @[ts]],
       !._start_end_dict =
           [ts \in DOMAIN @ \ Range(expired_list) |-> @[ts]]]

_window_expire(op, expired_list) ==
    CHOOSE r \in {_window_delete(v, expired_list) : v \in {op}} : TRUE

\* the records of the operand enter the history
_window_insert(op, inserted_list, timestamp, start_end) ==
    IF start_end[1] <= timestamp /\ timestamp <= start_end[2]
    THEN [op EXCEPT
            !._history_dict = DictPut(@, timestamp, inserted_list),
            !._start_end_dict = DictPut(@, timestamp, start_end),
            !._inserted_list = inserted_list]
    ELSE op

_window_flatten(op) ==
    [op EXCEPT !._current_list =
        Flatten([i \in 1..Cardinality(DOMAIN op._history_dict) |->
                    op._history_dict[
                        IntSetToSeq(DOMAIN op._history_dict)[i]]])]

_window_current(op) ==
    CHOOSE r \in {_window_flatten(v) : v \in {op}} : TRUE

_window_update(op, inserted_list, timestamp) ==
    IF op._bound = -1
    THEN [op EXCEPT !._deleted_list = <<>>,
                    !._current_list = op._previous_list \o inserted_list,
                    !._inserted_list = inserted_list]
    ELSE _window_current(
             _window_insert(
                 _window_expire(
                     [op EXCEPT !._deleted_list = <<>>,
                                !._inserted_list = <<>>],
                     SelectSeq(IntSetToSeq(DOMAIN op._start_end_dict),
                               LAMBDA old_timestamp :
                                   ~(/\ op._start_end_dict[old_timestamp][1]
                                           <= timestamp
                                     /\ timestamp
                                           <= op._start_end_dict[
                                                  old_timestamp][2]))),
                 inserted_list, timestamp,
                 get_start_end(timestamp, op._bound, op._slide)))

WindowOp_update_record_list(op, inserted_list, timestamp) ==
    CHOOSE r \in {_window_update(v, inserted_list, timestamp) : v \in {op}} : TRUE

\* operators/basic.py: _is_valid_by_condition over <<attribute, operator,
\* value>>
_is_valid_by_condition(record, condition) ==
    CASE condition[2] = "<" -> record[condition[1]] < condition[3]
      [] condition[2] = "<=" -> record[condition[1]] <= condition[3]
      [] condition[2] = ">" -> record[condition[1]] > condition[3]
      [] condition[2] = ">=" -> record[condition[1]] >= condition[3]
      [] condition[2] = "=" -> record[condition[1]] = condition[3]
      [] condition[2] = "<>" -> record[condition[1]] # condition[3]

\* SelectionOp._is_valid_record_and
_is_valid_record_and(record, condition_list) ==
    \A i \in 1..Len(condition_list) :
        _is_valid_by_condition(record, condition_list[i])

RECURSIVE Operator_run(_, _, _)

\* Operator.run_father
_run_father(w, self, timestamp) ==
    IF w.operators[self]._father # NoneOp
    THEN Operator_run(w, w.operators[self]._father, timestamp)
    ELSE w

run_father(w, self, timestamp) ==
    CHOOSE r \in {_run_father(v, self, timestamp) : v \in {w}} : TRUE

\* TableOp.run
TableOp_run(w, self, timestamp) ==
    IF /\ get_timestamp(w, w.operators[self]._table) = timestamp
       /\ w.operators[self]._timestamp < timestamp
    THEN run_father(
             debug_run(_table_read(w, self, timestamp,
                                   w.operators[self]._table), self),
             self, timestamp)
    ELSE w

\* WindowOp.run
WindowOp_run(w, self, timestamp) ==
    IF can_run(w.operators[self], OperandTimestamps(w.operators, self),
               timestamp)
    THEN run_father(
             debug_run(
                 _put_operator(w, self,
                     WindowOp_update_record_list(
                         _can_run_assign(w.operators[self], timestamp),
                         get_inserted_list(w.operators,
                             w.operators[self]._operand_list[1]),
                         timestamp)),
                 self),
             self, timestamp)
    ELSE w

\* SelectionOp.run with the connector AND
SelectionOp_run(w, self, timestamp) ==
    IF can_run(w.operators[self], OperandTimestamps(w.operators, self),
               timestamp)
    THEN run_father(
             debug_run(
                 _put_operator(w, self,
                     [_can_run_assign(w.operators[self], timestamp)
                        EXCEPT !._current_list =
                            SelectSeq(
                                get_current_list(w.operators,
                                    w.operators[self]._operand_list[1]),
                                LAMBDA rec :
                                    _is_valid_record_and(rec,
                                        w.operators[self]._condition_list))]),
                 self),
             self, timestamp)
    ELSE w

\* BagExceptOp.run: the right records take the attributes of the left
_except_lists(left, right) ==
    bag_except(left._current_list,
               IF left._attribute_list # right._attribute_list
               THEN _rename_record_attributes(right._current_list,
                                              right._attribute_list,
                                              left._attribute_list)
               ELSE right._current_list)

BagExceptOp_run(w, self, timestamp) ==
    IF can_run(w.operators[self], OperandTimestamps(w.operators, self),
               timestamp)
    THEN run_father(
             debug_run(
                 _put_operator(w, self,
                     [_can_run_assign(w.operators[self], timestamp)
                        EXCEPT !._current_list =
                            _except_lists(
                                w.operators[
                                    w.operators[self]._operand_list[1]],
                                w.operators[
                                    w.operators[self]._operand_list[2]])]),
                 self),
             self, timestamp)
    ELSE w

\* run of the operator's class
_run_of_class(w, self, timestamp) ==
    CASE w.operators[self]._operator_name = "TABLE" ->
             TableOp_run(w, self, timestamp)
      [] w.operators[self]._operator_name = "WIN" ->
             WindowOp_run(w, self, timestamp)
      [] w.operators[self]._operator_name = "SELECT" ->
             SelectionOp_run(w, self, timestamp)
      [] w.operators[self]._operator_name = "EXCEPT" ->
             BagExceptOp_run(w, self, timestamp)

\* operator.run(timestamp); the state the run starts from is taken once
Operator_run(w, self, timestamp) ==
    CHOOSE r \in {_run_of_class(v, self, timestamp) : v \in {w}} : TRUE

(***************************************************************************)
(* control/manager.py: Manager                                             *)
(***************************************************************************)
\* the consumers of a table or query of the table dictionary
get_consumers_list(w, table_id) ==
    IF table_id \in DOMAIN w.tables THEN w.tables[table_id]._consumer_list
    ELSE w.queries[table_id]._consumer_list

RECURSIVE _run_consumer_list(_, _, _)
_run_consumer_list(w, consumer_list, timestamp) ==
    IF consumer_list = <<>> THEN w
    ELSE _run_consumer_list(Operator_run(w, Head(consumer_list), timestamp),
                            Tail(consumer_list), timestamp)

\* Manager._run_consumers over the table dictionary in its order
RECURSIVE _run_consumers(_, _, _)
_run_consumers(w, table_ids, timestamp) ==
    IF table_ids = <<>> THEN w
    ELSE CHOOSE r \in
             {_run_consumers(
                  _run_consumer_list(v,
                      get_consumers_list(v, Head(table_ids)), timestamp),
                  Tail(table_ids), timestamp) : v \in {w}} : TRUE

\* Manager._sync_queries
_sync_query_dict(w, timestamp) ==
    [w EXCEPT !.queries =
        [query_id \in DOMAIN w.queries |->
            Query_update_timestamp(w.queries[query_id], w.operators,
                                   timestamp)]]

_sync_queries(w, timestamp) ==
    CHOOSE r \in {_sync_query_dict(v, timestamp) : v \in {w}} : TRUE

\* Manager._get_min_query_timestamp; the query dictionary is not empty
_get_min_query_timestamp(query_dict) ==
    CHOOSE min_ts \in {query_dict[q]._timestamp : q \in DOMAIN query_dict} :
        \A q \in DOMAIN query_dict : min_ts <= query_dict[q]._timestamp

\* Manager._output_queries
_output_queries(query_dict, operator_dict) ==
    [query_id \in DOMAIN query_dict |->
        Query_output(query_dict[query_id], operator_dict)]

\* Manager._sync_tables_timestamp: a table makes one step for a tick;
\* file_records are the lines of its file with the new timestamp
_sync_tables_timestamp(table_dict, current_ts, file_records) ==
    [table_id \in DOMAIN table_dict |->
        IF table_dict[table_id]._timestamp < current_ts
        THEN next_timestamp(table_dict[table_id], file_records[table_id])
        ELSE table_dict[table_id]]

(***************************************************************************)
(* An environment of one stream and two queries:                           *)
(*   REGISTER STREAM S (A INTEGER)                                         *)
(*   REGISTER QUERY Q1: SELECT * FROM S [RANGE ...] WHERE A = 1            *)
(*   REGISTER QUERY Q2: SELECT * FROM S [RANGE ...] EXCEPT SELECT * FROM Q1*)
(* Q2 reads Q1 and writes its changes.                                     *)
(***************************************************************************)
MaxTimestamp == 2

Bounds == {-1, 1, 2}

\* the values of A the lines of a timestamp of the file of S carry
FileValues == {<<>>, <<1>>, <<2>>, <<1, 1>>, <<1, 2>>}

FileRecords(values) ==
    [i \in 1..Len(values) |->
        [att \in {Attribute("A", NoneName)} |-> values[i]]]

TableIds == {"S", "Q1", "Q2"}

\* the orders a dictionary may keep its keys in
TableOrders ==
    {order \in [1..3 -> TableIds] : Range(order) = TableIds}

OperatorIds == {"T1", "W1", "SEL1", "T2", "W2", "T3", "EXC2"}

EnvTables ==
    [table_id \in {"S"} |->
        add_consumer(
            add_consumer(Table(STREAM_SYM, <<Attribute("A", NoneName)>>),
                         "T1"),
            "T2")]

EnvOperators(bound) ==
    [op \in OperatorIds |->
        CASE op = "T1" -> TableOp("S", "S", "W1")
          [] op = "W1" -> WindowOp("T1", bound, 1, "SEL1",
                                   <<Attribute("A", "S")>>)
          [] op = "SEL1" -> SelectionOp("W1",
                                <<<<Attribute("A", "S"), "=", 1>>>>,
                                NoneOp, <<Attribute("A", "S")>>)
          [] op = "T2" -> TableOp("S", "S", "W2")
          [] op = "W2" -> WindowOp("T2", bound, 1, "EXC2",
                                   <<Attribute("A", "S")>>)
          [] op = "T3" -> TableOp("Q1", "Q1", "EXC2")
          [] op = "EXC2" -> Operator("EXCEPT", <<"W2", "T3">>, NoneOp,
                                     <<Attribute("A", "S")>>)]

EnvQueries ==
    [query_id \in {"Q1", "Q2"} |->
        IF query_id = "Q1"
        THEN add_consumer(
                 Query("SEL1", <<Attribute("A", NoneName)>>,
                       [rows |-> <<>>], FALSE),
                 "T3")
        ELSE Query("EXC2", <<Attribute("A", NoneName)>>,
                   [rows |-> <<>>], TRUE)]

\* the tables, queries and operators of the manager as one value
World == [tables |-> tables, queries |-> queries, operators |-> operators,
          run_log |-> run_log]

\* Manager.initialize and the start of Manager.run
InitM ==
    /\ IdleH
    /\ IdleP
    /\ IdleV
    /\ IdleS
    /\ IdleT
    /\ \E order \in TableOrders :
          mgr = [current_ts |-> 0, pc |-> "sync", _table_dict |-> order]
    /\ tables = EnvTables
    /\ queries = EnvQueries
    /\ \E bound \in Bounds : operators = EnvOperators(bound)
    /\ run_log = <<>>

\* Manager.run: the head of the loop and _sync_tables_timestamp
SyncTables ==
    /\ mgr.pc = "sync"
    /\ mgr.current_ts <= MaxTimestamp
    /\ \E values \in FileValues :
          tables' = _sync_tables_timestamp(tables, mgr.current_ts,
                        [table_id \in DOMAIN tables |-> FileRecords(values)])
    /\ mgr' = [mgr EXCEPT !.pc = "consumers"]
    /\ UNCHANGED <<queries, operators, run_log, varsH, varsS, varsT, varsP, varsV>>

_loop_body(w, table_ids, timestamp) ==
    _sync_queries(_run_consumers(w, table_ids, timestamp), timestamp)

\* Manager.run: one turn of the loop of the consumers
RunConsumers ==
    /\ mgr.pc = "consumers"
    /\ _get_min_query_timestamp(queries) < mgr.current_ts
    /\ \E r \in {_loop_body(World, mgr._table_dict, mgr.current_ts)} :
          /\ tables' = r.tables
          /\ queries' = r.queries
          /\ operators' = r.operators
          /\ run_log' = r.run_log
    /\ UNCHANGED <<mgr, varsH, varsS, varsT, varsP, varsV>>

\* Manager.run: the loop of the consumers is over, the queries write their
\* output and the next timestamp begins
OutputQueries ==
    /\ mgr.pc = "consumers"
    /\ ~(_get_min_query_timestamp(queries) < mgr.current_ts)
    /\ queries' = _output_queries(queries, operators)
    /\ mgr' = [mgr EXCEPT !.current_ts = @ + 1, !.pc = "sync"]
    /\ UNCHANGED <<tables, operators, run_log, varsH, varsS, varsT, varsP, varsV>>

NextM == SyncTables \/ RunConsumers \/ OutputQueries

SpecM == InitM /\ [][NextM]_vars

\* the manager is one thread that runs its loop to the end
SpecMFair == InitM /\ [][NextM]_vars /\ WF_vars(NextM)

\* the positions of the log where the operator executed at the timestamp
LogPositions(op, t) ==
    {i \in 1..Len(run_log) : run_log[i] = <<op, t>>}

\* C8: an operator executes at a timestamp only when its own timestamp is
\* below it and each of its operands has that very timestamp: an operator
\* is never ahead of an operand, it executes at most once at a timestamp,
\* and when it executes each operand has executed at that timestamp before
C8_RunsOnceAfterOperands ==
    /\ \A op \in DOMAIN operators :
          \A i \in 1..Len(operators[op]._operand_list) :
              operators[op]._timestamp
                  <= operators[operators[op]._operand_list[i]]._timestamp
    /\ \A i \in 1..Len(run_log) :
          /\ \A j \in 1..(i - 1) :
                run_log[j][1] = run_log[i][1]
                    => run_log[j][2] < run_log[i][2]
          /\ \A k \in 1..Len(operators[run_log[i][1]]._operand_list) :
                \E j \in 1..(i - 1) :
                    run_log[j] =
                        <<operators[run_log[i][1]]._operand_list[k],
                          run_log[i][2]>>

\* the difference of Q2 executed in the second turn of the loop of a
\* timestamp, after the operator that reads Q1 executed, its other operand
\* having executed in the first turn
C8_Witness ==
    /\ mgr # <<>>
    /\ \E i \in 3..Len(run_log) :
          /\ run_log[i] = <<"EXC2", 1>>
          /\ run_log[i - 1] = <<"T3", 1>>
          /\ \E j \in 1..(i - 2) : run_log[j] = <<"W2", 1>>
          /\ \E j \in 1..(i - 2) : run_log[j] = <<"EXC2", 0>>

\* the loop of the consumers of the timestamp is over: every query and the
\* top operator of its plan are at the timestamp
LoopDone(t) ==
    /\ mgr.current_ts = t
    /\ mgr.pc = "consumers"
    /\ \A query_id \in DOMAIN queries :
          /\ queries[query_id]._timestamp = t
          /\ operators[queries[query_id]._plan]._timestamp = t

\* the queries wrote the output of the timestamp and the next one began
Emitted(t) ==
    /\ mgr.current_ts = t + 1
    /\ mgr.pc = "sync"
    /\ \A query_id \in DOMAIN queries :
          IF queries[query_id]._show_changes
          THEN /\ queries[query_id]._inserted_list_timestamp = t
               /\ queries[query_id]._deleted_list_timestamp = t
          ELSE queries[query_id]._current_list_timestamp = t

\* every timestamp up to the maximum had its loop of the consumers end with
\* the top operator of every query executed at it, the queries wrote the
\* output of the last one and the manager left its loop
AllEmitted ==
    /\ Emitted(MaxTimestamp)
    /\ \A t \in 0..MaxTimestamp :
          \A query_id \in DOMAIN queries :
              LogPositions(queries[query_id]._plan, t) # {}
    /\ \A query_id \in DOMAIN queries :
          /\ queries[query_id]._timestamp = MaxTimestamp
          /\ operators[queries[query_id]._plan]._timestamp = MaxTimestamp

\* C9: for every timestamp up to the maximum the loop of the consumers
\* ends with every query, the one that reads another query too, and the
\* top operator of its plan at the timestamp; then the queries write their
\* output and the next timestamp begins, so the manager reaches the end of
\* its run with every timestamp processed
C9_ConsumerLoopTerminates == <>AllEmitted

\* the loop of the consumers of the last timestamp is over, the query that
\* reads the other query included, and the output is not written yet
C9_Witness ==
    /\ mgr # <<>>
    /\ LoopDone(MaxTimestamp)
    /\ LogPositions("EXC2", MaxTimestamp) # {}
    /\ Len(queries["Q2"]._output_file.rows) >= 1

\* result is the difference of the lists left and right as multisets
IsDifference(result, left, right) ==
    \A rec \in Range(result) \cup Range(left) \cup Range(right) :
        CountIn(result, rec) =
            IF CountIn(left, rec) > CountIn(right, rec)
            THEN CountIn(left, rec) - CountIn(right, rec) ELSE 0

\* previous minus deleted plus inserted is current, as multisets
IsBalanced(previous, deleted, inserted, current) ==
    \A rec \in Range(previous) \cup Range(deleted) \cup Range(inserted)
                   \cup Range(current) :
        /\ CountIn(deleted, rec) <= CountIn(previous, rec)
        /\ CountIn(previous, rec) - CountIn(deleted, rec)
               + CountIn(inserted, rec) = CountIn(current, rec)

DifferenceLists(op) ==
    /\ IsDifference(get_inserted_list(operators, op),
                    operators[op]._current_list,
                    operators[op]._previous_list)
    /\ IsDifference(get_deleted_list(operators, op),
                    operators[op]._previous_list,
                    operators[op]._current_list)
    /\ IsBalanced(operators[op]._previous_list,
                  get_deleted_list(operators, op),
                  get_inserted_list(operators, op),
                  operators[op]._current_list)

\* the operators that take get_inserted_list and get_deleted_list from
\* the class Operator
InheritsLists(op) == operators[op]._operator_name \notin {"TABLE", "WIN"}

\* C10 as the specification states it, for every operator: the inserted
\* list is current minus previous, the deleted list is previous minus
\* current, and previous minus deleted plus inserted is current
C10_EveryOperatorDifferenceLists ==
    \A op \in DOMAIN operators :
        operators[op]._timestamp >= 0 => DifferenceLists(op)

\* C10: for an operator that takes get_inserted_list and get_deleted_list
\* from the class Operator the inserted list is current minus previous, the
\* deleted list is previous minus current, as multisets, and the previous
\* list is the current list the operator had before it ran; for a window
\* previous minus deleted plus inserted is current
C10_InheritedDifferenceLists ==
    /\ [](\A op \in DOMAIN operators :
             /\ InheritsLists(op) => DifferenceLists(op)
             /\ operators[op]._operator_name = "WIN"
                   => IsBalanced(operators[op]._previous_list,
                                 get_deleted_list(operators, op),
                                 get_inserted_list(operators, op),
                                 operators[op]._current_list))
    /\ [][\A op \in DOMAIN operators :
             (/\ operators[op]._operator_name # "TABLE"
              /\ operators'[op]._timestamp # operators[op]._timestamp)
                 => operators'[op]._previous_list
                        = operators[op]._current_list]_vars

\* the selection ran with a record twice in its current list and once in
\* its previous list, and the difference of Q2 ran having lost a record
C10_Witness ==
    /\ mgr # <<>>
    /\ operators["SEL1"]._timestamp >= 1
    /\ \E rec \in Range(operators["SEL1"]._current_list) :
          /\ CountIn(operators["SEL1"]._current_list, rec) = 2
          /\ CountIn(operators["SEL1"]._previous_list, rec) = 1
          /\ get_inserted_list(operators, "SEL1") = <<rec>>
    /\ get_deleted_list(operators, "EXC2") # <<>>

(***************************************************************************)
(* operators/simplepreference.py: PreferenceOp with top < 0                *)
(* Records of the operand are plain records over the attribute list.       *)
(***************************************************************************)
Front(s) == SubSeq(s, 1, Len(s) - 1)
Last(s) == s[Len(s)]

\* operators/basic.py
record_projection(record, attribute_set) == [att \in attribute_set |-> record[att]]

\* the partitions in the order their keys are first met; an empty attribute
\* set gives the single partition () holding the whole list
RECURSIVE _partition_keys(_, _, _)
_partition_keys(record_list, attributes_set, key_list) ==
    IF record_list = <<>> THEN key_list
    ELSE LET rec_key == record_projection(Head(record_list), attributes_set)
         IN _partition_keys(Tail(record_list), attributes_set,
                            IF rec_key \in Range(key_list) THEN key_list
                            ELSE Append(key_list, rec_key))

build_partitions(record_list, attributes_set) ==
    IF Cardinality(attributes_set) = 0 THEN <<record_list>>
    ELSE LET key_list == _partition_keys(record_list, attributes_set, <<>>)
         IN [k \in 1..Len(key_list) |->
               SelectSeq(record_list,
                   LAMBDA rec : record_projection(rec, attributes_set)
                                    = key_list[k])]

best_direct(record_list, comparison) ==
    LET preferred_list ==
            SelectSeq(record_list,
                LAMBDA rec : is_best_record(comparison, ToCells(rec)))
        notpreferred_list ==
            SelectSeq(record_list,
                LAMBDA rec : /\ ~is_best_record(comparison, ToCells(rec))
                             /\ is_worst_record(comparison, ToCells(rec)))
        incomparable_list ==
            SelectSeq(record_list,
                LAMBDA rec : /\ ~is_best_record(comparison, ToCells(rec))
                             /\ ~is_worst_record(comparison, ToCells(rec)))
    IN IF preferred_list = <<>> THEN <<record_list, <<>> >>
       ELSE <<preferred_list \o incomparable_list, notpreferred_list>>

best_partition(attribute_list, record_list, comparison) ==
    LET att_set == attribute_list \ comparison.indiff
        partition_list == build_partitions(record_list, att_set)
        direct == [k \in 1..Len(partition_list) |->
                      best_direct(partition_list[k], comparison)]
    IN << Flatten([k \in 1..Len(direct) |-> direct[k][1]]),
          Flatten([k \in 1..Len(direct) |-> direct[k][2]]) >>

RECURSIVE _best_partition_loop(_, _, _)
_best_partition_loop(attribute_list, record_list, comparison_list) ==
    IF comparison_list = <<>> THEN record_list
    ELSE _best_partition_loop(
             attribute_list,
             best_partition(attribute_list, record_list,
                            Head(comparison_list))[1],
             Tail(comparison_list))

_get_best_partition(attribute_list, current_list, comparison_list) ==
    IF Len(current_list) > 0
    THEN _best_partition_loop(attribute_list, current_list, comparison_list)
    ELSE current_list

\* the inner loop of _get_dominant_and_dominated: rec against the records
\* still in record_list, popped from its end
RECURSIVE _compare_loop(_, _, _)
_compare_loop(rule_list, rec, st) ==
    IF st.record_list = <<>> THEN st
    ELSE LET other_rec == Last(st.record_list)
             popped == [st EXCEPT !.record_list = Front(@)]
         IN IF dominates_by_search(rule_list, other_rec, rec)
            THEN [popped EXCEPT
                      !.dominated = TRUE,
                      !.worst_list = Append(@, rec),
                      !.incomparable_list = Append(@, other_rec)]
            ELSE IF dominates_by_search(rule_list, rec, other_rec)
            THEN _compare_loop(rule_list, rec,
                     [popped EXCEPT !.worst_list = Append(@, other_rec)])
            ELSE _compare_loop(rule_list, rec,
                     [popped EXCEPT
                          !.incomparable_list = Append(@, other_rec)])

RECURSIVE _dominant_loop(_, _, _, _)
_dominant_loop(rule_list, record_list, best_list, worst_list) ==
    IF record_list = <<>> THEN <<best_list, worst_list>>
    ELSE LET rec == Last(record_list)
             st == _compare_loop(rule_list, rec,
                       [record_list |-> Front(record_list),
                        incomparable_list |-> <<>>,
                        worst_list |-> worst_list,
                        dominated |-> FALSE])
         IN _dominant_loop(rule_list,
                           st.record_list \o st.incomparable_list,
                           IF st.dominated THEN best_list
                           ELSE Append(best_list, rec),
                           st.worst_list)

_get_dominant_and_dominated(rule_list, record_list) ==
    _dominant_loop(rule_list, record_list, <<>>, <<>>)

\* PreferenceOp._get_best_search
PreferenceOp_get_best_search(rule_list, current_list) ==
    _get_dominant_and_dominated(rule_list, current_list)[1]

(***************************************************************************)
(* preference/interval.py: splitting intervals                             *)
(***************************************************************************)
\* the left limit of other is inside self also when it meets a limit of
\* self of the same openness
left_inside_at_limit(self, other) ==
    /\ other.lv # NoneV
    /\ (self.lv = NoneV \/ self.lv <= other.lv)
    /\ (self.rv = NoneV \/ self.rv >= other.lv)

\* the left limit of other is inside self
left_inside(self, other) ==
    /\ other.lv # NoneV
    /\ \/ self.lv = NoneV
       \/ self.lv < other.lv
       \/ (other.lv = self.lv /\ ~left_closed(other) /\ left_closed(self))
    /\ \/ self.rv = NoneV
       \/ self.rv > other.lv
       \/ (self.rv = other.lv /\ right_closed(self) /\ left_closed(other))

\* the right limit of other is inside self
right_inside(self, other) ==
    /\ other.rv # NoneV
    /\ \/ self.rv = NoneV
       \/ self.rv > other.rv
       \/ (other.rv = self.rv /\ ~right_closed(other) /\ right_closed(self))
    /\ \/ self.lv = NoneV
       \/ self.lv < other.rv
       \/ (self.lv = other.rv /\ left_closed(self) /\ right_closed(other))

\* Interval.is_disjoint
is_disjoint(self, other) ==
    right_inside(other, self) \/ left_inside(other, self)

\* Interval.is_consistent
interval_is_consistent(iv) ==
    ~ (/\ iv.lv # NoneV
       /\ iv.rv # NoneV
       /\ iv.lo \in {"<", "<="}
       /\ iv.ro \in {"<", "<="}
       /\ iv.lv >= iv.rv)

\* a split that keeps the limit of other in both parts
split_by_interval_closed(self, other) ==
    IF self # other /\ left_inside(self, other)
    THEN << Interval(self.lv, self.lo, "<=", other.lv),
            Interval(other.lv, other.lo, self.ro, self.rv) >>
    ELSE IF self # other /\ right_inside(self, other)
    THEN << Interval(self.lv, self.lo, other.ro, other.rv),
            Interval(other.rv, "<=", self.ro, self.rv) >>
    ELSE <<>>

split_by_interval(self, other) ==
    IF self # other /\ left_inside(self, other)
    THEN << Interval(self.lv, self.lo,
                     IF left_closed(other) THEN "<" ELSE "<=", other.lv),
            Interval(other.lv, other.lo, self.ro, self.rv) >>
    ELSE IF self # other /\ right_inside(self, other)
    THEN << Interval(self.lv, self.lo, other.ro, other.rv),
            Interval(other.rv, IF right_closed(other) THEN "<" ELSE "<=",
                     self.ro, self.rv) >>
    ELSE <<>>

\* Interval.get_string without the key: what str(rule) shows of an interval
get_string(iv) ==
    IF iv.lv = NoneV THEN <<"", iv.ro, iv.rv>>
    ELSE IF iv.rv = NoneV
    THEN <<"", IF iv.lo = "<" THEN ">" ELSE ">=", iv.lv>>
    ELSE IF iv.lo = "=" /\ iv.ro = "=" THEN <<"", "=", iv.lv>>
    ELSE <<iv.lv, iv.lo, iv.ro, iv.rv>>

(***************************************************************************)
(* preference/rule.py: rules built from parsed terms, split, compatibility *)
(* A rule is a record; a temporal rule also holds first and the past       *)
(* dictionaries previous, some and all of its condition.                   *)
(***************************************************************************)
NoneAtt == "None"

is_temporal_rule(rule) == "first" \in DOMAIN rule

\* operator.find_attribute
find_attribute(attribute_list, name) ==
    IF name \in attribute_list THEN name ELSE NoneAtt

\* CPCondition._initialize: the present conditions over valid attributes
_initialize_condition(parsed_dict, attribute_list) ==
    [att \in {n \in DOMAIN parsed_dict : n \in attribute_list} |->
        parsed_dict[att]]

\* TCPCondition._init_past_conditions: a past dictionary keeps the key None
_init_past_conditions(parsed_dict, attribute_list) ==
    [att \in {find_attribute(attribute_list, n) : n \in DOMAIN parsed_dict} |->
        parsed_dict[CHOOSE n \in DOMAIN parsed_dict :
                        find_attribute(attribute_list, n) = att]]

_invalid_names(names, attribute_list) ==
    SelectSeq(SetToSeq(names), LAMBDA n : n \notin attribute_list)

\* CPPreference._initialize: the invalid attributes of the preference
_invalid_preference(parsed_rule, attribute_list) ==
    LET att_best == find_attribute(attribute_list, parsed_rule.best_att)
        att_worst == find_attribute(attribute_list, parsed_rule.worst_att)
    IN (IF att_best = NoneAtt \/ att_worst = NoneAtt \/ att_best # att_worst
        THEN <<parsed_rule.best_att, parsed_rule.worst_att>> ELSE <<>>)
       \o _invalid_names(parsed_rule.indiff, attribute_list)

\* CPRule.__init__ over a parsed rule
CPRule_init(parsed_rule, attribute_list) ==
    [cond |-> _initialize_condition(parsed_rule.cond, attribute_list),
     att |-> find_attribute(attribute_list, parsed_rule.best_att),
     best |-> parsed_rule.best,
     worst |-> parsed_rule.worst,
     indiff |-> {find_attribute(attribute_list, n) : n \in parsed_rule.indiff},
     invalid |-> _invalid_names(DOMAIN parsed_rule.cond, attribute_list)
                 \o _invalid_preference(parsed_rule, attribute_list)]

\* TCPRule.__init__ over a parsed rule
TCPRule_init(parsed_rule, attribute_list) ==
    [first |-> parsed_rule.first,
     cond |-> _initialize_condition(parsed_rule.cond, attribute_list),
     previous |-> _init_past_conditions(parsed_rule.previous, attribute_list),
     some |-> _init_past_conditions(parsed_rule.some, attribute_list),
     all |-> _init_past_conditions(parsed_rule.all, attribute_list),
     att |-> find_attribute(attribute_list, parsed_rule.best_att),
     best |-> parsed_rule.best,
     worst |-> parsed_rule.worst,
     indiff |-> {find_attribute(attribute_list, n) : n \in parsed_rule.indiff},
     invalid |-> _invalid_names(DOMAIN parsed_rule.cond, attribute_list)
                 \o _invalid_names(DOMAIN parsed_rule.previous
                                   \cup DOMAIN parsed_rule.some
                                   \cup DOMAIN parsed_rule.all, attribute_list)
                 \o _invalid_preference(parsed_rule, attribute_list)]

build_rule(parsed_rule, attribute_list) ==
    IF "first" \in DOMAIN parsed_rule
    THEN TCPRule_init(parsed_rule, attribute_list)
    ELSE CPRule_init(parsed_rule, attribute_list)

\* CPRule.is_consistent
CPRule_is_consistent(rule) ==
    IF Len(rule.invalid) > 0 THEN FALSE
    ELSE IF rule.att \in DOMAIN rule.cond THEN FALSE
    ELSE IF rule.att \in rule.indiff THEN FALSE
    ELSE \A att \in rule.indiff : att \notin DOMAIN rule.cond

\* str(rule), the key of rule equality and of sets of rules
_dict_string(condition_dict) ==
    [att \in DOMAIN condition_dict |-> get_string(condition_dict[att])]

rule_string(rule) ==
    << IF is_temporal_rule(rule)
       THEN <<rule.first, _dict_string(rule.previous),
              _dict_string(rule.some), _dict_string(rule.all)>>
       ELSE <<>>,
       _dict_string(rule.cond), rule.att, get_string(rule.best),
       get_string(rule.worst), rule.indiff >>

rule_eq(rule, other) == rule_string(rule) = rule_string(other)

rule_in(rule, rule_list) ==
    \E i \in 1..Len(rule_list) : rule_eq(rule, rule_list[i])

\* the condition attributes, the indifferent attributes, the preference one
get_attribute_list(rule) ==
    SetToSeq(DOMAIN rule.cond)
    \o (IF is_temporal_rule(rule)
        THEN SetToSeq(DOMAIN rule.previous) \o SetToSeq(DOMAIN rule.some)
             \o SetToSeq(DOMAIN rule.all)
        ELSE <<>>)
    \o SetToSeq(rule.indiff) \o <<rule.att>>

_dict_interval(condition_dict, attribute) ==
    IF attribute \in DOMAIN condition_dict
    THEN <<condition_dict[attribute]>> ELSE <<>>

get_interval_list(rule, attribute) ==
    _dict_interval(rule.cond, attribute)
    \o (IF is_temporal_rule(rule)
        THEN _dict_interval(rule.previous, attribute)
             \o _dict_interval(rule.some, attribute)
             \o _dict_interval(rule.all, attribute)
        ELSE <<>>)
    \o (IF rule.att = attribute THEN <<rule.best, rule.worst>> ELSE <<>>)

\* the first list of the sequence that is not empty, <<>> when all are: the
\* result of a chain of "if len(new_list): return new_list"
FirstNonEmpty(list_seq) ==
    IF \A i \in 1..Len(list_seq) : list_seq[i] = <<>> THEN <<>>
    ELSE list_seq[CHOOSE i \in 1..Len(list_seq) :
                      /\ list_seq[i] # <<>>
                      /\ \A j \in 1..(i - 1) : list_seq[j] = <<>>]

_copies_with_interval(condition_dict, attribute, new_interval_list) ==
    [i \in 1..Len(new_interval_list) |->
        [condition_dict EXCEPT ![attribute] = new_interval_list[i]]]

split_condition_dict(condition_dict, attribute, interval) ==
    IF attribute \in DOMAIN condition_dict
    THEN _copies_with_interval(condition_dict, attribute,
             split_by_interval(condition_dict[attribute], interval))
    ELSE <<>>

\* the copies of the rule, one for each new dictionary or interval
_copies_with_cond(rule, dict_list) ==
    [i \in 1..Len(dict_list) |-> [rule EXCEPT !.cond = dict_list[i]]]

_copies_with_previous(rule, dict_list) ==
    [i \in 1..Len(dict_list) |-> [rule EXCEPT !.previous = dict_list[i]]]

_copies_with_some(rule, dict_list) ==
    [i \in 1..Len(dict_list) |-> [rule EXCEPT !.some = dict_list[i]]]

_copies_with_all(rule, dict_list) ==
    [i \in 1..Len(dict_list) |-> [rule EXCEPT !.all = dict_list[i]]]

_copies_with_best(rule, interval_list) ==
    [i \in 1..Len(interval_list) |-> [rule EXCEPT !.best = interval_list[i]]]

_copies_with_worst(rule, interval_list) ==
    [i \in 1..Len(interval_list) |-> [rule EXCEPT !.worst = interval_list[i]]]

\* CPCondition.split_by_interval and TCPCondition.split_by_interval: the
\* copies of the rule with each split condition; the present condition
\* first, then the PREVIOUS, SOME PREVIOUS and ALL PREVIOUS conditions
condition_split_by_interval(rule, attribute, interval) ==
    FirstNonEmpty(
        <<_copies_with_cond(rule,
              split_condition_dict(rule.cond, attribute, interval))>>
        \o IF ~is_temporal_rule(rule) THEN <<>>
           ELSE <<_copies_with_previous(rule,
                      split_condition_dict(rule.previous, attribute,
                                           interval)),
                  _copies_with_some(rule,
                      split_condition_dict(rule.some, attribute, interval)),
                  _copies_with_all(rule,
                      split_condition_dict(rule.all, attribute, interval))>>)

\* CPPreference.split_by_interval: the best interval first, then the worst
preference_split_by_interval(rule, interval) ==
    FirstNonEmpty(
        <<_copies_with_best(rule, split_by_interval(rule.best, interval)),
          _copies_with_worst(rule, split_by_interval(rule.worst, interval))>>)

_split_by_interval(rule, attribute, interval) ==
    FirstNonEmpty(
        <<condition_split_by_interval(rule, attribute, interval),
          IF attribute = rule.att
          THEN preference_split_by_interval(rule, interval) ELSE <<>>>>)

\* the intervals of the attribute, each paired with the attribute
_attribute_pairs(attribute, interval_list) ==
    [i \in 1..Len(interval_list) |-> <<attribute, interval_list[i]>>]

\* the (attribute, interval) pairs of a rule in the order CPRule.split
\* visits them
_interval_pairs(other, att_list) ==
    Flatten([a \in 1..Len(att_list) |->
                _attribute_pairs(att_list[a],
                                 get_interval_list(other, att_list[a]))])

_split_by_pairs(rule, pair_list) ==
    FirstNonEmpty([p \in 1..Len(pair_list) |->
                      _split_by_interval(rule, pair_list[p][1],
                                         pair_list[p][2])])

\* CPRule.split: the first split by an interval of the other rule
split(rule, other) ==
    _split_by_pairs(rule, _interval_pairs(other, get_attribute_list(other)))

\* rule.split(other_rule) for the first other rule that splits the rule
_first_split(rule, rule_list) ==
    FirstNonEmpty([j \in 1..Len(rule_list) |-> split(rule, rule_list[j])])

\* rule_list.remove(rule): the first rule equal to it
_remove_rule(rule_list, rule) ==
    RemoveAt(rule_list, CHOOSE i \in 1..Len(rule_list) :
                 /\ rule_eq(rule_list[i], rule)
                 /\ \A j \in 1..(i - 1) : ~rule_eq(rule_list[j], rule))

RECURSIVE _append_new_rules(_, _)
_append_new_rules(rule_list, new_split_list) ==
    IF new_split_list = <<>> THEN rule_list
    ELSE _append_new_rules(
             IF rule_in(Head(new_split_list), rule_list) THEN rule_list
             ELSE Append(rule_list, Head(new_split_list)),
             Tail(new_split_list))

\* the first rule of the list that some rule splits, 0 when there is none
_first_split_index(split_lists) ==
    IF \A i \in 1..Len(split_lists) : split_lists[i] = <<>> THEN 0
    ELSE CHOOSE i \in 1..Len(split_lists) :
             /\ split_lists[i] # <<>>
             /\ \A j \in 1..(i - 1) : split_lists[j] = <<>>

\* one turn that keeps the rule it split
_split_once_keep(rule_list, i, split_lists) ==
    _append_new_rules(rule_list, split_lists[i])

\* one turn of the loop of _split_rules: rule i leaves, its splits enter
_split_once(rule_list, i, split_lists) ==
    _append_new_rules(_remove_rule(rule_list, rule_list[i]), split_lists[i])

RECURSIVE _split_rules(_)
_split_turn(rule_list, i, split_lists) ==
    IF i = 0 THEN rule_list
    ELSE _split_rules(_split_once(rule_list, i, split_lists))

_split_turn_of(rule_list, split_lists) ==
    _split_turn(rule_list, _first_split_index(split_lists), split_lists)

_split_rules(rule_list) ==
    _split_turn_of(rule_list,
        [i \in 1..Len(rule_list) |-> _first_split(rule_list[i], rule_list)])

check_rules_consistency(rule_list) ==
    \A i \in 1..Len(rule_list) : CPRule_is_consistent(rule_list[i])

are_compatible_dicts(dict1, dict2) ==
    \A key \in DOMAIN dict1 : ~(key \in DOMAIN dict2 /\ dict1[key] # dict2[key])

is_compatible_to(rule, other) ==
    ~(rule.att # other.att \/ ~are_compatible_dicts(rule.cond, other.cond))

\* TCPCondition.is_temporal_compatible_to
is_temporal_compatible_to(rule, other) ==
    IF has_first(rule) /\ has_previous(other) THEN FALSE
    ELSE IF \/ are_compatible_dicts(rule.previous, other.previous)
            \/ are_compatible_dicts(rule.previous, other.previous)
    THEN FALSE
    ELSE IF \/ are_compatible_dicts(rule.all, other.previous)
            \/ are_compatible_dicts(rule.all, other.some)
            \/ are_compatible_dicts(rule.all, other.all)
    THEN FALSE
    ELSE TRUE

(***************************************************************************)
(* preference/preferencegraph.py                                           *)
(* _graph_dict is kept as the list of its vertices, in insertion order,    *)
(* with the adjacency list of each of them.                                *)
(***************************************************************************)
PreferenceGraph == [vertices |-> <<>>, adj |-> <<>>]

_vertex_index(graph, vertex) ==
    CHOOSE i \in 1..Len(graph.vertices) : graph.vertices[i] = vertex

_add_vertex(graph, vertex) ==
    IF vertex \in Range(graph.vertices) THEN graph
    ELSE [vertices |-> Append(graph.vertices, vertex),
          adj |-> Append(graph.adj, <<>>)]

_add_edge_to(g, from_vertex, to_vertex) ==
    LET f == _vertex_index(g, from_vertex)
    IN IF to_vertex \in Range(g.adj[f]) THEN g
       ELSE [g EXCEPT !.adj[f] = Append(@, to_vertex)]

add_edge(graph, from_vertex, to_vertex) ==
    CHOOSE r \in {_add_edge_to(g, from_vertex, to_vertex) :
                     g \in {_add_vertex(_add_vertex(graph, from_vertex),
                                         to_vertex)}} : TRUE

\* waiting_list is the adjacency list of start_vertex itself: the pops and
\* the extensions of the search change the graph
RECURSIVE _search_loop(_, _, _, _)
_search_next(popped, start, goal_vertex, visited_list, next_vertex) ==
    IF next_vertex = goal_vertex THEN [found |-> TRUE, graph |-> popped]
    ELSE IF next_vertex \notin Range(visited_list)
    THEN CHOOSE r \in
             {_search_loop(g, start, goal_vertex,
                           Append(visited_list, next_vertex)) :
                 g \in {[popped EXCEPT !.adj[start] =
                            @ \o popped.adj[_vertex_index(popped,
                                                          next_vertex)]]}} :
             TRUE
    ELSE _search_loop(popped, start, goal_vertex, visited_list)

_search_loop(graph, start, goal_vertex, visited_list) ==
    IF graph.adj[start] = <<>> THEN [found |-> FALSE, graph |-> graph]
    ELSE CHOOSE r \in
             {_search_next(popped, start, goal_vertex, visited_list,
                           Last(graph.adj[start])) :
                 popped \in {[graph EXCEPT !.adj[start] = Front(@)]}} : TRUE

depth_first_search(graph, start_vertex, goal_vertex) ==
    _search_loop(graph, _vertex_index(graph, start_vertex), goal_vertex,
                 <<start_vertex>>)

RECURSIVE _acyclic_loop(_, _)
_acyclic_loop(graph, v) ==
    IF v > Len(graph.vertices) THEN TRUE
    ELSE \E r \in {depth_first_search(graph, graph.vertices[v],
                                      graph.vertices[v])} :
            IF r.found THEN FALSE ELSE _acyclic_loop(r.graph, v + 1)

is_acyclic(graph) == _acyclic_loop(graph, 1)

RECURSIVE _add_edges(_, _)
_add_edges(graph, edge_list) ==
    IF edge_list = <<>> THEN graph
    ELSE CHOOSE r \in
             {_add_edges(g, Tail(edge_list)) :
                 g \in {add_edge(graph, Head(edge_list)[1],
                                 Head(edge_list)[2])}} : TRUE

(***************************************************************************)
(* preference/theory.py: consistency of CPTheory and TCPTheory             *)
(***************************************************************************)
\* only the edges (C) -> (P) of a rule
_rule_edges_of_condition(rule) ==
    LET cond_list == SetToSeq(DOMAIN rule.cond)
    IN [i \in 1..Len(cond_list) |-> <<cond_list[i], rule.att>>]

\* the edges (C) -> (P) and (P) -> (I) of a rule
_rule_edges(rule) ==
    LET cond_list == SetToSeq(DOMAIN rule.cond)
        indiff_list == SetToSeq(rule.indiff)
    IN [i \in 1..Len(cond_list) |-> <<cond_list[i], rule.att>>]
       \o [i \in 1..Len(indiff_list) |-> <<rule.att, indiff_list[i]>>]

_global_graph(rule_list) ==
    _add_edges(PreferenceGraph,
               Flatten([i \in 1..Len(rule_list) |-> _rule_edges(rule_list[i])]))

_is_global_consistent(rule_list) == is_acyclic(_global_graph(rule_list))

_build_interval_graph(rule_list) ==
    _add_edges(PreferenceGraph,
               [i \in 1..Len(rule_list) |->
                   <<rule_list[i].best, rule_list[i].worst>>])

_is_cprule_compatible_to_list(rule_list, rule_id, rule_id_set) ==
    \A other_id \in rule_id_set :
        is_compatible_to(rule_list[rule_id], rule_list[other_id])

\* the new sets a set gives in one pass of _get_compatible_sets
_combined_sets(rule_list, rule_set) ==
    LET ids == SelectSeq([i \in 1..Len(rule_list) |-> i],
                   LAMBDA rule_id :
                       /\ _is_cprule_compatible_to_list(rule_list, rule_id,
                                                        rule_set)
                       /\ rule_id \notin rule_set)
    IN [n \in 1..Len(ids) |-> rule_set \cup {ids[n]}]

\* one pass of _get_compatible_sets over set_list[lo..hi]: the sets appended
\* to new_set_list, each marked as new or as an original set without
\* combination; a new set is appended when no appended set equals it
_compatible_one(rule_list, rule_set) ==
    LET combined == _combined_sets(rule_list, rule_set)
        new_list == _append_new(<<>>, combined)
    IN IF combined = <<>> THEN <<[set |-> rule_set, new |-> FALSE]>>
       ELSE [n \in 1..Len(new_list) |-> [set |-> new_list[n], new |-> TRUE]]

_compatible_merge(first_half, second_half) ==
    first_half
    \o SelectSeq(second_half,
           LAMBDA item :
               \/ ~item.new
               \/ \A k \in 1..Len(first_half) : first_half[k].set # item.set)

RECURSIVE _compatible_pass(_, _, _, _)
_compatible_pass(rule_list, set_list, lo, hi) ==
    IF lo > hi THEN <<>>
    ELSE IF lo = hi THEN _compatible_one(rule_list, set_list[lo])
    ELSE CHOOSE r \in
             {_compatible_merge(first_half, second_half) :
                 first_half \in {_compatible_pass(rule_list, set_list, lo,
                                                  (lo + hi) \div 2)},
                 second_half \in {_compatible_pass(rule_list, set_list,
                                       ((lo + hi) \div 2) + 1, hi)}} : TRUE

RECURSIVE _compatible_loop(_, _)
_compatible_next(rule_list, pass) ==
    IF \E n \in 1..Len(pass) : pass[n].new
    THEN _compatible_loop(rule_list, [n \in 1..Len(pass) |-> pass[n].set])
    ELSE [n \in 1..Len(pass) |-> pass[n].set]

_compatible_loop(rule_list, set_list) ==
    CHOOSE r \in
        {_compatible_next(rule_list, pass) :
            pass \in {_compatible_pass(rule_list, set_list, 1,
                                       Len(set_list))}} : TRUE

\* every rule alone
_get_single_sets(rule_list) == [i \in 1..Len(rule_list) |-> {i}]

_get_compatible_sets(rule_list) ==
    _compatible_loop(rule_list, [i \in 1..Len(rule_list) |-> {i}])

_is_local_consistent(rule_list) ==
    \E set_list \in {_get_compatible_sets(rule_list)} :
        \A s \in 1..Len(set_list) :
            is_acyclic(_build_interval_graph(
                SelectSeq(rule_list,
                    LAMBDA rule : \E index \in set_list[s] :
                                      rule_list[index] = rule)))

\* CPTheory._check_consistency: the split rule list and the verdict
CPTheory_check_consistency(rule_list) ==
    IF check_rules_consistency(rule_list)
    THEN CHOOSE r \in
             {[_rule_list |-> split_list,
               _consistent |-> /\ _is_global_consistent(split_list)
                               /\ _is_local_consistent(split_list)] :
                 split_list \in {_split_rules(rule_list)}} : TRUE
    ELSE [_rule_list |-> rule_list, _consistent |-> FALSE]

\* CPTheory.__init__
CPTheory(rule_list, pref_alg) ==
    CHOOSE r \in
        {[_pref_alg |-> pref_alg,
          _rule_list |-> checked._rule_list,
          _consistent |-> checked._consistent,
          _comparison_list |->
              IF pref_alg = "PARTITION" /\ checked._consistent
              THEN _build_comparisons(checked._rule_list) ELSE <<>>] :
            checked \in {CPTheory_check_consistency(rule_list)}} : TRUE

\* the sets of rules of TCPTheory._get_temporal_compatible_sets, each as the
\* list of its rules; a set of rules holds one rule of each string
RECURSIVE _rule_set(_, _)
_rule_set(rule_list, acc) ==
    IF rule_list = <<>> THEN acc
    ELSE _rule_set(Tail(rule_list),
                   IF rule_in(Head(rule_list), acc) THEN acc
                   ELSE Append(acc, Head(rule_list)))

_same_rule_set(set1, set2) ==
    /\ \A i \in 1..Len(set1) : rule_in(set1[i], set2)
    /\ \A i \in 1..Len(set2) : rule_in(set2[i], set1)

RECURSIVE _distinct_sets(_, _)
_distinct_sets(set_list, result_list) ==
    IF set_list = <<>> THEN result_list
    ELSE _distinct_sets(Tail(set_list),
             IF \E r \in 1..Len(result_list) :
                    _same_rule_set(result_list[r], Head(set_list))
             THEN result_list ELSE Append(result_list, Head(set_list)))

_get_temporal_compatible_sets(rule_list) ==
    _distinct_sets(
        [i \in 1..Len(rule_list) |->
            _rule_set(<<rule_list[i]>> \o
                      SelectSeq(rule_list,
                          LAMBDA other_rule :
                              is_temporal_compatible_to(rule_list[i],
                                                        other_rule)),
                      <<>>)],
        <<>>)

\* the CPTheory over each set of temporal compatible rules is consistent
_are_sets_consistent(set_list) ==
    \A s \in 1..Len(set_list) :
        CPTheory(set_list[s], "DEPTH_SEARCH")._consistent

\* TCPTheory._check_consistency
TCPTheory_check_consistency(rule_list) ==
    IF check_rules_consistency(rule_list)
    THEN CHOOSE r \in
             {[_rule_list |-> split_list,
               _consistent |->
                   \E set_list \in
                          {_get_temporal_compatible_sets(split_list)} :
                       _are_sets_consistent(set_list)] :
                 split_list \in {_split_rules(rule_list)}} : TRUE
    ELSE [_rule_list |-> rule_list, _consistent |-> TRUE]

\* TCPTheory.__init__
TCPTheory(rule_list, pref_alg) ==
    CHOOSE r \in
        {[_pref_alg |-> pref_alg,
          _rule_list |-> checked._rule_list,
          _consistent |-> checked._consistent] :
            checked \in {TCPTheory_check_consistency(rule_list)}} : TRUE

(***************************************************************************)
(* The preference queries the model registers: rules as parsed, over the   *)
(* attributes a, b, c of the operand (z is no attribute of it).            *)
(***************************************************************************)
AttributeList == {"a", "b", "c"}

ParsedRule(cond, best_att, best, worst_att, worst, indiff) ==
    [cond |-> cond, best_att |-> best_att, best |-> best,
     worst_att |-> worst_att, worst |-> worst, indiff |-> indiff]

ParsedTemporalRule(first, previous, some, all, rule) ==
    [first |-> first, previous |-> previous, some |-> some, all |-> all,
     cond |-> rule.cond, best_att |-> rule.best_att, best |-> rule.best,
     worst_att |-> rule.worst_att, worst |-> rule.worst,
     indiff |-> rule.indiff]

\* a = 1 BETTER a = 2
P1 == ParsedRule(EmptyDict, "a", IntervalEq(1), "a", IntervalEq(2), {})
\* a = 2 BETTER a = 1
P2 == ParsedRule(EmptyDict, "a", IntervalEq(2), "a", IntervalEq(1), {})
\* IF a = 1 THEN b = 2 BETTER b = 3 [c]
P3 == ParsedRule([a |-> IntervalEq(1)], "b", IntervalEq(2), "b", IntervalEq(3), {"c"})
\* b = 1 BETTER b = 2 [a]
P4 == ParsedRule(EmptyDict, "b", IntervalEq(1), "b", IntervalEq(2), {"a"})
\* IF a = 2 THEN c = 2 BETTER c = 1
P5 == ParsedRule([a |-> IntervalEq(2)], "c", IntervalEq(2), "c", IntervalEq(1), {})
\* IF b = 1 THEN a = 1 BETTER a = 2
P6 == ParsedRule([b |-> IntervalEq(1)], "a", IntervalEq(1), "a", IntervalEq(2), {})
\* IF c = 1 THEN a = 2 BETTER a = 1
P7 == ParsedRule([c |-> IntervalEq(1)], "a", IntervalEq(2), "a", IntervalEq(1), {})
\* 1 < a < 9 BETTER a = 10
P8 == ParsedRule(EmptyDict, "a", Interval(1, "<", "<", 9), "a", IntervalEq(10), {})
\* 2 < a < 5 BETTER a = 11
P9 == ParsedRule(EmptyDict, "a", Interval(2, "<", "<", 5), "a", IntervalEq(11), {})
\* IF 2 <= a <= 3 THEN b = 1 BETTER b = 2
P10 == ParsedRule([a |-> Interval(2, "<=", "<=", 3)], "b", IntervalEq(1), "b", IntervalEq(2), {})
\* IF a = 3 THEN b = 2 BETTER b = 1
P11 == ParsedRule([a |-> IntervalEq(3)], "b", IntervalEq(2), "b", IntervalEq(1), {})
\* IF 1 <= a <= 2 THEN b = 1 BETTER b = 2
P12 == ParsedRule([a |-> Interval(1, "<=", "<=", 2)], "b", IntervalEq(1), "b", IntervalEq(2), {})
\* IF a = 1 THEN a = 1 BETTER a = 2: the preference attribute in the condition
P13 == ParsedRule([a |-> IntervalEq(1)], "a", IntervalEq(1), "a", IntervalEq(2), {})
\* a = 1 BETTER a = 2 [a]: the preference attribute indifferent
P14 == ParsedRule(EmptyDict, "a", IntervalEq(1), "a", IntervalEq(2), {"a"})
\* IF b = 1 THEN a = 1 BETTER a = 2 [b]: a condition attribute indifferent
P15 == ParsedRule([b |-> IntervalEq(1)], "a", IntervalEq(1), "a", IntervalEq(2), {"b"})
\* IF z = 1 THEN a = 1 BETTER a = 2: z is not an attribute
P16 == ParsedRule([z |-> IntervalEq(1)], "a", IntervalEq(1), "a", IntervalEq(2), {})
\* a = 1 BETTER b = 2: two attributes in one preference
P17 == ParsedRule(EmptyDict, "a", IntervalEq(1), "b", IntervalEq(2), {})
\* a = 10 BETTER 1 < a < 9
P18 == ParsedRule(EmptyDict, "a", IntervalEq(10), "a", Interval(1, "<", "<", 9), {})

ParsedBase == <<P1, P2, P3, P4, P5, P6, P7, P8, P9, P10, P11, P12, P13, P14, P15, P16, P17, P18>>

\* the same rules in a temporal theory, and rules with past conditions
T1 == ParsedTemporalRule(FALSE, EmptyDict, EmptyDict, EmptyDict, P1)
T2 == ParsedTemporalRule(FALSE, EmptyDict, EmptyDict, EmptyDict, P2)
\* IF FIRST THEN a = 2 BETTER a = 1
T3 == ParsedTemporalRule(TRUE, EmptyDict, EmptyDict, EmptyDict, P2)
\* IF PREVIOUS b = 1 AND ALL PREVIOUS b = 1 THEN a = 1 BETTER a = 2
T4 == ParsedTemporalRule(FALSE, [b |-> IntervalEq(1)], EmptyDict, [b |-> IntervalEq(1)], P1)
\* IF PREVIOUS b = 2 AND SOME PREVIOUS b = 2 AND ALL PREVIOUS b = 2
\* THEN a = 2 BETTER a = 1
T5 == ParsedTemporalRule(FALSE, [b |-> IntervalEq(2)], [b |-> IntervalEq(2)], [b |-> IntervalEq(2)], P2)
\* IF PREVIOUS b = 1 THEN a = 2 BETTER a = 1
T6 == ParsedTemporalRule(FALSE, [b |-> IntervalEq(1)], EmptyDict, EmptyDict, P2)
\* IF a = 1 THEN a = 1 BETTER a = 2, in a temporal theory
T7 == ParsedTemporalRule(FALSE, EmptyDict, EmptyDict, EmptyDict, P13)
\* IF PREVIOUS z = 1 THEN a = 1 BETTER a = 2
T8 == ParsedTemporalRule(FALSE, [z |-> IntervalEq(1)], EmptyDict, EmptyDict, P1)
\* IF b = 1 THEN a = 1 BETTER a = 2, in a temporal theory
T9 == ParsedTemporalRule(FALSE, EmptyDict, EmptyDict, EmptyDict, P6)

TemporalBase == <<T1, T2, T3, T4, T5, T6, T7, T8, T9>>

\* how many rules a theory of the model holds at most
MaxRules == 2

RuleLists(base) == UNION {[1..n -> Range(base)] : n \in 1..MaxRules}

build_rules(parsed_list, attribute_list) ==
    [i \in 1..Len(parsed_list) |-> build_rule(parsed_list[i], attribute_list)]

is_temporal_query(parsed_list) == "first" \in DOMAIN parsed_list[1]

(***************************************************************************)
(* Registration of a preference query: the theory is built from the rules  *)
(***************************************************************************)
InitK ==
    /\ IdleH
    /\ IdleS
    /\ IdleT
    /\ IdleM
    /\ IdleV
    /\ parsed_rules \in RuleLists(ParsedBase) \cup RuleLists(TemporalBase)
    /\ pref_theory = <<>>
    /\ pref_operand = <<>>
    /\ pref_best = <<>>
    /\ pref_search = <<>>
    /\ pref_compare = <<>>

\* BEST / TOPK: PreferenceOp with CPTheory(rule_list, pref_alg)
BuildCPTheory ==
    /\ pref_theory = <<>>
    /\ ~is_temporal_query(parsed_rules)
    /\ \E pref_alg \in {"DEPTH_SEARCH", "INC_ANCESTORS"} :
          \E rule_list \in {build_rules(parsed_rules, AttributeList)} :
              pref_theory' = CPTheory(rule_list, pref_alg)
    /\ UNCHANGED <<parsed_rules, pref_operand, pref_best, pref_search,
                   pref_compare, varsH, varsS, varsT, varsM, varsV>>

\* BESTSEQ / TOPKSEQ: TemporalPreferenceOp with TCPTheory(rule_list, pref_alg)
BuildTCPTheory ==
    /\ pref_theory = <<>>
    /\ is_temporal_query(parsed_rules)
    /\ \E pref_alg \in {"DEPTH_SEARCH", "SEQTREE"} :
          \E rule_list \in {build_rules(parsed_rules, AttributeList)} :
              pref_theory' = TCPTheory(rule_list, pref_alg)
    /\ UNCHANGED <<parsed_rules, pref_operand, pref_best, pref_search,
                   pref_compare, varsH, varsS, varsT, varsM, varsV>>

NextK == BuildCPTheory \/ BuildTCPTheory

SpecK == InitK /\ [][NextK]_vars

(***************************************************************************)
(* Claims on the registration of preference queries                        *)
(***************************************************************************)
\* the edges of the paths of one or two edges
_compose(edges) ==
    edges \cup {<<p[1][1], p[2][2]>> :
                   p \in {q \in edges \X edges : q[1][2] = q[2][1]}}

RECURSIVE TransitiveClosure(_)
TransitiveClosure(edges) ==
    CHOOSE r \in {IF next = edges THEN edges ELSE TransitiveClosure(next) :
                     next \in {_compose(edges)}} : TRUE

HasCycle(edges) == \E e \in TransitiveClosure(edges) : e[1] = e[2]

BuiltRules == build_rules(parsed_rules, AttributeList)

CPTheoryBuilt == pref_theory # <<>> /\ ~is_temporal_query(parsed_rules)
TCPTheoryBuilt == pref_theory # <<>> /\ is_temporal_query(parsed_rules)

\* the digraph of the claim: condition attribute -> preference attribute and
\* preference attribute -> indifferent attribute, over all rules
AttributeDigraph(rule_list) ==
    UNION {{<<c, rule_list[i].att>> : c \in DOMAIN rule_list[i].cond}
           \cup {<<rule_list[i].att, w>> : w \in rule_list[i].indiff} :
           i \in 1..Len(rule_list)}

\* C16: a CPTheory built from a rule list whose attribute digraph holds a
\* directed cycle is not consistent
C16_CyclicDigraphInconsistent ==
    CPTheoryBuilt /\ HasCycle(AttributeDigraph(BuiltRules))
        => ~pref_theory._consistent

\* rules that are consistent one by one and locally, with a cycle over three
\* attributes, are reported inconsistent
C16_Witness ==
    /\ CPTheoryBuilt
    /\ check_rules_consistency(BuiltRules)
    /\ _is_local_consistent(pref_theory._rule_list)
    /\ <<"a", "b">> \in AttributeDigraph(BuiltRules)
    /\ <<"b", "c">> \in AttributeDigraph(BuiltRules)
    /\ <<"c", "a">> \in AttributeDigraph(BuiltRules)
    /\ ~pref_theory._consistent

\* the sets of pairwise compatible rules of a rule list with a directed cycle
\* in their interval graph
CyclicCompatibleSets(rule_list) ==
    {S \in SUBSET (1..Len(rule_list)) :
        /\ S # {}
        /\ \A i \in S, j \in S : is_compatible_to(rule_list[i], rule_list[j])
        /\ HasCycle({<<rule_list[i].best, rule_list[i].worst>> : i \in S})}

HasNoPastCondition(rule) == ~has_first(rule) /\ ~has_previous(rule)

SubList(rule_list, S) ==
    LET ids == IntSetToSeq(S) IN [n \in 1..Len(ids) |-> rule_list[ids[n]]]

\* C18: a TCPTheory is not consistent when some set of its rules without
\* past conditions, which are temporal-compatible with each other, is an
\* inconsistent CPTheory
C18_TemporalCompatibleSetsChecked ==
    TCPTheoryBuilt
        => \A S \in SUBSET (1..Len(pref_theory._rule_list)) :
              /\ S # {}
              /\ \A i \in S : HasNoPastCondition(pref_theory._rule_list[i])
              /\ ~CPTheory(SubList(pref_theory._rule_list, S),
                           "DEPTH_SEARCH")._consistent
              => ~pref_theory._consistent

\* C19: a theory holding a rule that violates the rule invariants is not
\* consistent
C19_InvalidRuleInconsistent ==
    pref_theory # <<>> /\ ~check_rules_consistency(BuiltRules)
        => ~pref_theory._consistent

\* twice the largest limit of an interval of the model, plus one: the
\* points 0, 1/2, 1, ... are kept as 0, 1, 2, ...
MaxPoint == 23

\* the point p / 2 is in the interval
InInterval(iv, p) ==
    /\ \/ iv.lv = NoneV
       \/ 2 * iv.lv < p
       \/ (2 * iv.lv = p /\ left_closed(iv))
    /\ \/ iv.rv = NoneV
       \/ 2 * iv.rv > p
       \/ (2 * iv.rv = p /\ right_closed(iv))

Overlap(iv1, iv2) ==
    \E p \in 0..MaxPoint : InInterval(iv1, p) /\ InInterval(iv2, p)

\* the intervals the rules of a list carry on an attribute
CarriedIntervals(rule_list, attribute) ==
    UNION {Range(get_interval_list(rule_list[i], attribute)) :
              i \in 1..Len(rule_list)}

\* C20: after _split_rules, two intervals that rules carry on the same
\* attribute are identical when they overlap
C20_SplitIntervalsDisjointOrIdentical ==
    pref_theory # <<>> /\ check_rules_consistency(BuiltRules)
        => \A attribute \in AttributeList :
              \A iv1 \in CarriedIntervals(pref_theory._rule_list, attribute) :
                 \A iv2 \in CarriedIntervals(pref_theory._rule_list, attribute) :
                    Overlap(iv1, iv2) => iv1 = iv2

(***************************************************************************)
(* The BEST operator over a consistent theory: the operand grows record by *)
(* record and the operator runs with top < 0 under the depth search and    *)
(* under the partition algorithm.                                            *)
(***************************************************************************)
\* the preference queries of the runs, as parsed
PrefQueryFamily ==
    {<<P1>>, <<P3>>, <<P4>>, <<P12>>, <<P1, P4>>, <<P4, P1>>, <<P4, P5>>,
     <<P5, P4>>, <<P3, P5>>, <<P3, P1>>, <<P1, P2>>}

\* the values of the attributes a, b, c in the records of the operand
PrefValues == {1, 2}

\* the records {a:1,b:2,c:5} and {a:1,b:3,c:9} next to all the records over
\* PrefValues
PrefRecords ==
    [a : PrefValues, b : PrefValues, c : PrefValues]
    \cup {[a |-> 1, b |-> 2, c |-> 5], [a |-> 1, b |-> 3, c |-> 9]}

MaxOperandLen == 2

\* PreferenceOp.is_consistent: the queries that are registered
PrefQueries ==
    {parsed_list \in PrefQueryFamily :
        CPTheory(build_rules(parsed_list, AttributeList),
                 "DEPTH_SEARCH")._consistent}

InitP ==
    /\ IdleH
    /\ IdleS
    /\ IdleT
    /\ IdleM
    /\ IdleV
    /\ parsed_rules \in PrefQueries
    /\ pref_theory = CPTheory(build_rules(parsed_rules, AttributeList),
                              "PARTITION")
    /\ pref_operand = <<>>
    /\ pref_best = <<>>
    /\ pref_search = <<>>
    /\ pref_compare = <<>>

\* PreferenceOp.run with top < 0 over the current list of the operand
PreferenceOp_run(cptheory, current_list) ==
    [search |-> PreferenceOp_get_best_search(cptheory._rule_list,
                                             current_list),
     partition |-> _get_best_partition(AttributeList, current_list,
                                       cptheory._comparison_list)]

\* a record enters the operand and the operator runs
PreferenceRun ==
    /\ Len(pref_operand) < MaxOperandLen
    /\ \E rec \in PrefRecords :
          \E current_list \in {Append(pref_operand, rec)} :
              /\ pref_operand' = current_list
              /\ pref_best' = PreferenceOp_run(pref_theory, current_list)
    /\ UNCHANGED <<parsed_rules, pref_theory, pref_search, pref_compare,
                   varsH, varsS, varsT, varsM, varsV>>

NextP == PreferenceRun

SpecP == InitP /\ [][NextP]_vars

\* C11: the best records of the partition algorithm are the best records of
\* the depth search, as multisets, for every operand of a consistent theory
C11_PartitionEqualsSearch ==
    pref_best # <<>>
        => \A rec \in PrefRecords :
              CountIn(pref_best.partition, rec) = CountIn(pref_best.search, rec)

\* CPTheory.dominates on the depth-search dispatch
Dominates(record1, record2) ==
    dominates_by_search(pref_theory._rule_list, record1, record2)

\* C12: the dominance by depth search of a consistent theory is irreflexive
\* and transitive
C12_StrictPartialOrder ==
    pref_best # <<>>
        => \A x \in Range(pref_operand) :
              /\ ~Dominates(x, x)
              /\ \A y \in Range(pref_operand), z \in PrefRecords :
                    Dominates(x, y) /\ Dominates(y, z) => Dominates(x, z)

(***************************************************************************)
(* The descent of _dominates_by_search: a rule of the remaining list       *)
(* changes the record of the search, and the search goes on without it.    *)
(***************************************************************************)
InitC ==
    /\ IdleH
    /\ IdleS
    /\ IdleT
    /\ IdleM
    /\ IdleV
    /\ parsed_rules \in PrefQueries
    /\ pref_theory = CPTheory(build_rules(parsed_rules, AttributeList),
                              "DEPTH_SEARCH")
    /\ \E rec \in PrefRecords :
          /\ pref_operand = <<rec>>
          /\ pref_search = [rule_list |-> pref_theory._rule_list,
                            record1 |-> ToCells(rec),
                            previous |-> NoneRec,
                            rule |-> <<>>]
    /\ pref_best = <<>>
    /\ pref_compare = <<>>

\* one turn of the for loop of _dominates_by_search that makes the
\* recursive call: new_rec = rule.change_record(record1)
SearchStep(index) ==
    /\ \E new_rec \in {change_record(pref_search.rule_list[index],
                                     pref_search.record1)} :
          /\ new_rec # NoneRec
          /\ pref_search' = [rule_list |-> RemoveAt(pref_search.rule_list,
                                                    index),
                             record1 |-> new_rec,
                             previous |-> pref_search.record1,
                             rule |-> pref_search.rule_list[index]]
    /\ UNCHANGED <<parsed_rules, pref_theory, pref_operand, pref_best,
                   pref_compare, varsH, varsS, varsT, varsM, varsV>>

NextC == \E index \in 1..Len(pref_search.rule_list) : SearchStep(index)

SpecC == InitC /\ [][NextC]_vars

\* the statement as written: the record handed to change_record dominates
\* the record it returns, by the rule
C13_ChangedRecordDominated ==
    pref_search.rule # <<>>
        => record_dominates(pref_search.rule, pref_search.previous,
                            pref_search.record1)

\* C13: when the record that a rule of a consistent theory changes holds
\* the preference attribute of the rule, the record dominates the changed
\* record by the rule
C13_ChangedRecordDominatedIfPresent ==
    (/\ pref_search.rule # <<>>
     /\ pref_search.rule.att \in DOMAIN pref_search.previous)
        => record_dominates(pref_search.rule, pref_search.previous,
                            pref_search.record1)

\* a second step of a search changed a record that held the preference
\* attribute and had lost an indifferent attribute in the first step
C13_Witness ==
    /\ pref_search.rule # <<>>
    /\ pref_search.rule.att \in DOMAIN pref_search.previous
    /\ DOMAIN pref_search.previous # AttributeList
    /\ record_dominates(pref_search.rule, pref_search.previous,
                        pref_search.record1)

(***************************************************************************)
(* Comparison.dominates over the comparisons of a consistent theory built  *)
(* for the partition algorithm.                                             *)
(***************************************************************************)
InitD ==
    /\ IdleH
    /\ IdleS
    /\ IdleT
    /\ IdleM
    /\ IdleV
    /\ parsed_rules \in PrefQueries
    /\ pref_theory = CPTheory(build_rules(parsed_rules, AttributeList),
                              "PARTITION")
    /\ pref_operand = <<>>
    /\ pref_best = <<>>
    /\ pref_search = <<>>
    /\ pref_compare = <<>>

\* comparison.dominates(record1, record2) for a comparison of the theory
CompareRecords ==
    /\ \E i \in 1..Len(pref_theory._comparison_list) :
          \E record1 \in PrefRecords, record2 \in PrefRecords :
              pref_compare' =
                  [comparison |-> pref_theory._comparison_list[i],
                   record1 |-> record1,
                   record2 |-> record2,
                   dominates |->
                       comparison_dominates(pref_theory._comparison_list[i],
                           ToCells(record1), ToCells(record2))]
    /\ UNCHANGED <<parsed_rules, pref_theory, pref_operand, pref_best,
                   pref_search, varsH, varsS, varsT, varsM, varsV>>

NextD == CompareRecords

SpecD == InitD /\ [][NextD]_vars

\* r1 satisfies f+ and r2 satisfies f-
SatisfyFormulas(comp, record1, record2) ==
    /\ \A att \in DOMAIN comp.best :
          is_inside_or_equal(comp.best[att], Cell(record1[att]))
    /\ \A att \in DOMAIN comp.worst :
          is_inside_or_equal(comp.worst[att], Cell(record2[att]))

\* r1 and r2 hold the same value for every attribute outside the set
AgreeOutside(record1, record2, exempt) ==
    \A att \in AttributeList \ exempt : record1[att] = record2[att]

\* the statement as written: b.dominates(r1, r2) exactly when r1 satisfies
\* f+, r2 satisfies f- and they agree outside W, dom(f+) and dom(f-)
C14_DominatesIffOutsideFormulas ==
    pref_compare # <<>>
        => (pref_compare.dominates
            <=> /\ SatisfyFormulas(pref_compare.comparison,
                                   pref_compare.record1, pref_compare.record2)
                /\ AgreeOutside(pref_compare.record1, pref_compare.record2,
                       pref_compare.comparison.indiff
                       \cup DOMAIN pref_compare.comparison.best
                       \cup DOMAIN pref_compare.comparison.worst))

\* C14: b.dominates(r1, r2) exactly when r1 satisfies f+, r2 satisfies f-
\* and r1 and r2 agree on every attribute outside W
C14_DominatesIffOutsideIndifferent ==
    pref_compare # <<>>
        => (pref_compare.dominates
            <=> /\ SatisfyFormulas(pref_compare.comparison,
                                   pref_compare.record1, pref_compare.record2)
                /\ AgreeOutside(pref_compare.record1, pref_compare.record2,
                                pref_compare.comparison.indiff))

\* a comparison with an interval of two values in its formulas dominates a
\* pair of records
C14_Witness ==
    /\ pref_compare # <<>>
    /\ pref_compare.dominates
    /\ \E att \in DOMAIN pref_compare.comparison.best :
          pref_compare.comparison.best[att].lv
              # pref_compare.comparison.best[att].rv

\* C15: when b.dominates(r1, r2), r1 is a best record and r2 a worst record
\* of b and they agree on every attribute outside W, dom(f+) and dom(f-)
C15_DominatesImpliesBestWorstAgree ==
    pref_compare # <<>> /\ pref_compare.dominates
        => /\ _is_formula_valid_by_record(pref_compare.comparison.best,
                                          ToCells(pref_compare.record1))
           /\ _is_formula_valid_by_record(pref_compare.comparison.worst,
                                          ToCells(pref_compare.record2))
           /\ AgreeOutside(pref_compare.record1, pref_compare.record2,
                  pref_compare.comparison.indiff
                  \cup DOMAIN pref_compare.comparison.best
                  \cup DOMAIN pref_compare.comparison.worst)

\* a comparison dominates two records that differ in an indifferent
\* attribute other than the preference attribute
C15_Witness ==
    /\ pref_compare # <<>>
    /\ pref_compare.dominates
    /\ Cardinality({att \in AttributeList :
           pref_compare.record1[att] # pref_compare.record2[att]}) > 1

(***************************************************************************)
(* Interval: the operations of an interval over the intervals that the     *)
(* predicates of a query give and the parts that a split of them gives.    *)
(***************************************************************************)
\* the largest limit of an interval
MaxLimit == 3

IntervalLimits == 1..MaxLimit

\* ParsedPredicate: attribute <operator> value
ComparisonIntervals ==
    {IntervalEq(v) : v \in IntervalLimits}
    \cup {Interval(NoneV, "<=", ro, v) : ro \in {"<", "<="}, v \in IntervalLimits}
    \cup {Interval(v, lo, "<=", NoneV) : lo \in {"<", "<="}, v \in IntervalLimits}

\* ParsedPredicate: value <operator> attribute <operator> value
RangeIntervals ==
    {Interval(lv, lo, ro, rv) : lv \in IntervalLimits, lo \in {"<", "<="},
                                ro \in {"<", "<="}, rv \in IntervalLimits}

ParsedIntervals == ComparisonIntervals \cup RangeIntervals

\* the intervals of the rules while _split_rules runs: the parsed
\* intervals and the parts of their splits
SplitIntervals ==
    ParsedIntervals
    \cup UNION {Range(split_by_interval(self, other)) :
                   self \in ParsedIntervals, other \in ParsedIntervals}

InitV ==
    /\ IdleH
    /\ IdleS
    /\ IdleT
    /\ IdleM
    /\ IdleP
    /\ temporal_call = <<>>
    /\ clean_call = <<>>
    /\ split_call = <<>>
    /\ \E self \in SplitIntervals, other \in SplitIntervals :
          interval_call = [self |-> self, other |-> other, name |-> "",
                           split |-> <<>>, disjoint |-> FALSE]

\* self.split_by_interval(other)
SplitByInterval ==
    /\ interval_call' =
           [interval_call EXCEPT
               !.name = "split_by_interval",
               !.split = split_by_interval(interval_call.self,
                                           interval_call.other)]
    /\ UNCHANGED <<temporal_call, clean_call, split_call, varsH, varsS, varsT, varsM, varsP>>

\* self.is_disjoint(other)
IsDisjoint ==
    /\ interval_call' =
           [interval_call EXCEPT
               !.name = "is_disjoint",
               !.disjoint = is_disjoint(interval_call.self,
                                        interval_call.other)]
    /\ UNCHANGED <<temporal_call, clean_call, split_call, varsH, varsS, varsT, varsM, varsP>>

NextV == SplitByInterval \/ IsDisjoint

SpecV == InitV /\ [][NextV]_vars

\* split_by_interval returned two parts
SplitReturned ==
    /\ interval_call.name = "split_by_interval"
    /\ interval_call.split # <<>>

\* C21: when split_by_interval returns two intervals, every value of self is
\* in exactly one part and every value of a part is in self
C21_SplitPartitionsSelf ==
    SplitReturned =>
        /\ Len(interval_call.split) = 2
        /\ \A p \in 0..MaxPoint :
              /\ InInterval(interval_call.self, p)
                    <=> \/ InInterval(interval_call.split[1], p)
                        \/ InInterval(interval_call.split[2], p)
              /\ ~ (/\ InInterval(interval_call.split[1], p)
                    /\ InInterval(interval_call.split[2], p))

C21_Witness ==
    /\ SplitReturned
    /\ \E p \in 0..MaxPoint : InInterval(interval_call.split[1], p)
    /\ \E p \in 0..MaxPoint : InInterval(interval_call.split[2], p)
    /\ interval_call.self.lv = interval_call.other.lv

\* the limit is strictly between the limits of the interval
StrictlyInside(iv, limit) ==
    /\ limit # NoneV
    /\ (iv.lv = NoneV \/ iv.lv < limit)
    /\ (iv.rv = NoneV \/ iv.rv > limit)

\* the limits of an interval with their being closed
LimitsOf(iv) ==
    {<<iv.lv, left_closed(iv)>>, <<iv.rv, right_closed(iv)>>}

\* a limit of other is a limit of self and one is closed, one open
MeetWithOtherOpenness(self, other) ==
    \E m \in LimitsOf(other), n \in LimitsOf(self) :
        m[1] # NoneV /\ m[1] = n[1] /\ m[2] # n[2]

\* a limit of other is the limit of self of the same side, closed in self
\* and open in other
MeetSameSide(self, other) ==
    \/ (/\ other.lv # NoneV /\ other.lv = self.lv
        /\ left_closed(self) /\ ~left_closed(other))
    \/ (/\ other.rv # NoneV /\ other.rv = self.rv
        /\ right_closed(self) /\ ~right_closed(other))

\* a limit of other is the limit of self of the other side, both closed
MeetOppositeSide(self, other) ==
    \/ (/\ other.lv # NoneV /\ other.lv = self.rv
        /\ right_closed(self) /\ left_closed(other))
    \/ (/\ other.rv # NoneV /\ other.rv = self.lv
        /\ left_closed(self) /\ right_closed(other))

\* the statement as written: a split needs a limit of other strictly inside
\* self or meeting a limit of self of the other openness
C22_SplitOnlyStrictlyInside ==
    SplitReturned =>
        \/ StrictlyInside(interval_call.self, interval_call.other.lv)
        \/ StrictlyInside(interval_call.self, interval_call.other.rv)
        \/ MeetWithOtherOpenness(interval_call.self, interval_call.other)

\* C22: split_by_interval returns a split only when self differs from other
\* and a limit of other is strictly inside self, or is the limit of self of
\* the same side (closed in self, open in other), or is the limit of self of
\* the other side (closed in both)
C22_SplitOnlyInsideOrMeeting ==
    SplitReturned =>
        /\ interval_call.self # interval_call.other
        /\ \/ StrictlyInside(interval_call.self, interval_call.other.lv)
           \/ StrictlyInside(interval_call.self, interval_call.other.rv)
           \/ MeetSameSide(interval_call.self, interval_call.other)
           \/ MeetOppositeSide(interval_call.self, interval_call.other)

C22_Witness ==
    /\ SplitReturned
    /\ ~StrictlyInside(interval_call.self, interval_call.other.lv)
    /\ ~StrictlyInside(interval_call.self, interval_call.other.rv)
    /\ MeetOppositeSide(interval_call.self, interval_call.other)

\* C23: for consistent intervals a.is_disjoint(b) exactly when no value is
\* in both
C23_IsDisjointIffNoCommonValue ==
    (/\ interval_call.name = "is_disjoint"
     /\ interval_is_consistent(interval_call.self)
     /\ interval_is_consistent(interval_call.other))
        => (interval_call.disjoint
               <=> ~Overlap(interval_call.self, interval_call.other))

(***************************************************************************)
(* _clean_comparisons over the comparisons built for a consistent theory,  *)
(* and then the dominance tests by the essential comparisons.              *)
(***************************************************************************)
\* the theory when _build_transitive_comparisons calls _clean_comparisons:
\* _comparison_list holds every direct and transitive comparison, sorted
InitE ==
    /\ IdleH
    /\ IdleS
    /\ IdleT
    /\ IdleM
    /\ interval_call = <<>>
    /\ temporal_call = <<>>
    /\ clean_call = <<>>
    /\ split_call = <<>>
    /\ parsed_rules \in PrefQueries
    /\ \E rule_list \in {build_rules(parsed_rules, AttributeList)} :
          \E cptheory \in {CPTheory(rule_list, "DEPTH_SEARCH")} :
              pref_theory =
                  [cptheory EXCEPT
                      !._pref_alg = "PARTITION",
                      !._comparison_list =
                          _built_comparisons(cptheory._rule_list)]
    /\ pref_operand = <<>>
    /\ pref_best = <<>>
    /\ pref_search = <<>>
    /\ pref_compare = <<>>

\* self._clean_comparisons(), then self._comparison_list.sort()
CleanComparisons ==
    /\ clean_call = <<>>
    /\ clean_call' = [initial_list |-> pref_theory._comparison_list]
    /\ pref_theory' =
           [pref_theory EXCEPT
               !._comparison_list =
                   _essential_comparisons(pref_theory._comparison_list)]
    /\ UNCHANGED <<parsed_rules, pref_operand, pref_best, pref_search,
                   pref_compare, interval_call, temporal_call, split_call,
                   varsH, varsS, varsT, varsM>>

NextE == CleanComparisons \/ (clean_call # <<>> /\ CompareRecords)

SpecE == InitE /\ [][NextE]_vars

\* the comparisons that _clean_comparisons discarded
DiscardedComparisons ==
    Range(clean_call.initial_list) \ Range(pref_theory._comparison_list)

\* the statement as written: the essential comparisons are the built
\* comparisons that no other essential comparison is more generic than, no
\* essential comparison is more generic than another one, and every
\* discarded comparison has an essential comparison more generic than it
C24_EssentialComparisons ==
    clean_call # <<>> =>
        /\ Range(pref_theory._comparison_list)
              \subseteq Range(clean_call.initial_list)
        /\ \A comp \in Range(pref_theory._comparison_list) :
              \A other_comp \in Range(pref_theory._comparison_list) :
                  other_comp # comp => ~is_more_generic_than(other_comp, comp)
        /\ \A comp \in DiscardedComparisons :
              \E other_comp \in Range(pref_theory._comparison_list) :
                  is_more_generic_than(other_comp, comp)
        /\ Range(pref_theory._comparison_list) =
              {comp \in Range(clean_call.initial_list) :
                  \A other_comp \in Range(pref_theory._comparison_list) :
                      other_comp # comp
                          => ~is_more_generic_than(other_comp, comp)}

\* the comparisons of all_set that a chain of more generic comparisons
\* links to a comparison of comp_set
RECURSIVE LinkedByMoreGeneric(_, _)
LinkedByMoreGeneric(comp_set, all_set) ==
    IF \E comp \in all_set \ comp_set :
          \E other_comp \in comp_set : is_more_generic_than(other_comp, comp)
    THEN LinkedByMoreGeneric(
             comp_set \cup {comp \in all_set :
                               \E other_comp \in comp_set :
                                   is_more_generic_than(other_comp, comp)},
             all_set)
    ELSE comp_set

\* C24: after _clean_comparisons the essential comparisons are built
\* comparisons, no essential comparison is more generic than another one,
\* and from every discarded comparison a chain of built comparisons, each
\* more generic than the one before, leads to an essential comparison
C24_EssentialComparisonsByChain ==
    clean_call # <<>> =>
        /\ Range(pref_theory._comparison_list)
              \subseteq Range(clean_call.initial_list)
        /\ \A comp \in Range(pref_theory._comparison_list) :
              \A other_comp \in Range(pref_theory._comparison_list) :
                  other_comp # comp => ~is_more_generic_than(other_comp, comp)
        /\ LinkedByMoreGeneric(Range(pref_theory._comparison_list),
                               Range(clean_call.initial_list))
              = Range(clean_call.initial_list)

\* a discarded comparison that no essential comparison is more generic than
C24_Witness ==
    /\ clean_call # <<>>
    /\ Cardinality(Range(pref_theory._comparison_list)) > 1
    /\ \E comp \in DiscardedComparisons :
          \A other_comp \in Range(pref_theory._comparison_list) :
              ~is_more_generic_than(other_comp, comp)

(***************************************************************************)
(* A temporal theory over sequences: the validity of the condition of a    *)
(* rule at a position, and the dominance of sequences by depth search.     *)
(***************************************************************************)
\* the longest sequence
MaxSeqLen == 3

\* IF ALL PREVIOUS a = 1 THEN b = 1 BETTER b = 2
TRule4 == TCPRule(FALSE, EmptyDict, EmptyDict, EmptyDict,
                  [a |-> IntervalEq(1)], "b", IntervalEq(1), IntervalEq(2), {})
\* IF SOME PREVIOUS b = 2 THEN a = 2 BETTER a = 1
TRule5 == TCPRule(FALSE, EmptyDict, EmptyDict, [b |-> IntervalEq(2)],
                  EmptyDict, "a", IntervalEq(2), IntervalEq(1), {})
\* IF FIRST AND ALL PREVIOUS a = 1 THEN b = 1 BETTER b = 2
TRule6 == TCPRule(TRUE, EmptyDict, EmptyDict, EmptyDict,
                  [a |-> IntervalEq(1)], "b", IntervalEq(1), IntervalEq(2), {})
\* IF PREVIOUS a = 2 AND SOME PREVIOUS a = 1 AND ALL PREVIOUS b = 1 AND a = 2
\* THEN b = 1 BETTER b = 2
TRule7 == TCPRule(FALSE, [a |-> IntervalEq(2)], [a |-> IntervalEq(2)],
                  [a |-> IntervalEq(1)], [b |-> IntervalEq(1)],
                  "b", IntervalEq(1), IntervalEq(2), {})
\* IF FIRST THEN x = 1 BETTER x = 2
TRuleX == TCPRule(TRUE, EmptyDict, EmptyDict, EmptyDict, EmptyDict,
                  "x", IntervalEq(1), IntervalEq(2), {})

XRecords == {[x |-> 1], [x |-> 2]}

\* the rules of a temporal theory with the records of the stream
TemporalQueries ==
    {[rule_list |-> rule_list, records |-> PositionRecords] :
        rule_list \in {TCPTheoryRules, <<TRule4>>, <<TRule5>>, <<TRule6>>,
                       <<TRule7>>, <<TRule1, TRule4>>, <<TRule4, TRule7>>}}
    \cup {[rule_list |-> <<TRuleX>>, records |-> XRecords]}

\* the sequence of an identifier with the records at the timestamps 0, 1, ...
RECURSIVE SequenceOf(_)
SequenceOf(record_list) ==
    IF record_list = <<>> THEN Sequence([id |-> 1])
    ELSE append_position(
             SequenceOf(SubSeq(record_list, 1, Len(record_list) - 1)),
             record_list[Len(record_list)], Len(record_list) - 1,
             Len(record_list) - 1, Len(record_list) - 1 + MaxSeqLen)

SequencesOver(records) ==
    {SequenceOf(record_list) :
        record_list \in UNION {[1..n -> records] : n \in 0..MaxSeqLen}}

InitW ==
    /\ IdleH
    /\ IdleS
    /\ IdleT
    /\ IdleM
    /\ IdleP
    /\ interval_call = <<>>
    /\ clean_call = <<>>
    /\ split_call = <<>>
    /\ \E query \in TemporalQueries :
          \E sequence \in SequencesOver(query.records) :
              temporal_call =
                  [rule_list |-> query.rule_list, records |-> query.records,
                   sequence |-> sequence, name |-> "",
                   rule |-> 0, position |-> -1, valid |-> FALSE,
                   goal_sequence |-> SequenceOf(<<>>), dominates |-> FALSE]

\* rule.get_condition().is_valid_by_position(sequence, position)
IsValidByPosition ==
    /\ temporal_call.name = ""
    /\ \E index \in 1..Len(temporal_call.rule_list) :
          \E position \in 0..(SeqLen(temporal_call.sequence) - 1) :
              temporal_call' =
                  [temporal_call EXCEPT
                      !.name = "is_valid_by_position",
                      !.rule = index,
                      !.position = position,
                      !.valid = is_valid_by_position(
                                    temporal_call.rule_list[index],
                                    temporal_call.sequence, position)]
    /\ UNCHANGED <<interval_call, clean_call, split_call, varsH, varsS, varsT,
                   varsM, varsP>>

\* tcptheory.dominates_by_search(sequence, goal_sequence)
DominatesBySearch ==
    /\ temporal_call.name = ""
    /\ \E goal_sequence \in SequencesOver(temporal_call.records) :
          temporal_call' =
              [temporal_call EXCEPT
                  !.name = "dominates_by_search",
                  !.goal_sequence = goal_sequence,
                  !.dominates = tcp_dominates_by_search(
                                    temporal_call.rule_list,
                                    temporal_call.sequence, goal_sequence)]
    /\ UNCHANGED <<interval_call, clean_call, split_call, varsH, varsS, varsT,
                   varsM, varsP>>

NextW == IsValidByPosition \/ DominatesBySearch

SpecW == InitW /\ [][NextW]_vars

\* the record of the sequence at a position satisfies the predicates
HoldsAt(predicates, position) ==
    \A att \in DOMAIN predicates :
        /\ att \in DOMAIN temporal_call.sequence._position_list[position + 1]
        /\ InInterval(predicates[att],
               2 * temporal_call.sequence._position_list[position + 1][att])

\* the rule of a call of is_valid_by_position
CalledRule == temporal_call.rule_list[temporal_call.rule]

\* the present, PREVIOUS, SOME PREVIOUS and FIRST parts of a valid condition
ValidButAllPrevious ==
    /\ HoldsAt(CalledRule.cond, temporal_call.position)
    /\ DOMAIN CalledRule.previous # {}
          => /\ temporal_call.position > 0
             /\ HoldsAt(CalledRule.previous, temporal_call.position - 1)
    /\ DOMAIN CalledRule.some # {}
          => \E pos \in 0..(temporal_call.position - 1) :
                 HoldsAt(CalledRule.some, pos)
    /\ CalledRule.first => temporal_call.position = 0

AllPreviousHolds ==
    \A pos \in 0..(temporal_call.position - 1) : HoldsAt(CalledRule.all, pos)

\* the statement as written: ALL PREVIOUS is universal over the preceding
\* positions, so it holds at the position 0
C25_ValidByPositionUniversal ==
    temporal_call.name = "is_valid_by_position" =>
        (temporal_call.valid <=> ValidButAllPrevious /\ AllPreviousHolds)

\* C25: is_valid_by_position(seq, pos) exactly when the present predicates
\* hold on seq[pos], the PREVIOUS predicates on seq[pos-1], the SOME
\* PREVIOUS predicates on one of seq[0..pos-1], the ALL PREVIOUS predicates
\* on every one of seq[0..pos-1] with pos > 0 when there are any, and pos is
\* 0 if FIRST is present
C25_ValidByPositionWithPast ==
    temporal_call.name = "is_valid_by_position" =>
        (temporal_call.valid
            <=> /\ ValidButAllPrevious
                /\ AllPreviousHolds
                /\ DOMAIN CalledRule.all # {} => temporal_call.position > 0)

\* a condition with ALL PREVIOUS valid at the third position
C25_Witness ==
    /\ temporal_call.name = "is_valid_by_position"
    /\ temporal_call.valid
    /\ DOMAIN CalledRule.all # {}
    /\ DOMAIN CalledRule.some # {}
    /\ temporal_call.position = 2

\* the first position where the records of the two sequences differ
DifferAt(p) ==
    /\ p < SeqLen(temporal_call.sequence)
    /\ p < SeqLen(temporal_call.goal_sequence)
    /\ temporal_call.sequence._position_list[p + 1]
          # temporal_call.goal_sequence._position_list[p + 1]

FirstDifferent(p) == DifferAt(p) /\ \A q \in 0..(p - 1) : ~DifferAt(q)

\* the rules valid at a position of the sequence
ValidRulesAt(p) ==
    SelectSeq(temporal_call.rule_list,
              LAMBDA rule : is_valid_by_position(rule, temporal_call.sequence, p))

\* C26: dominates_by_search(s1, s2) exactly when the sequences have a first
\* position p where they differ and s1[p] dominates s2[p] by the search over
\* the rules valid at p; with IF FIRST THEN x=1 BETTER x=2,
\* [{x:1},{x:2}] dominates [{x:2},{x:1}] and not the other way round
C26_DominatesAtFirstDifferent ==
    temporal_call.name = "dominates_by_search" =>
        /\ temporal_call.dominates
              <=> \E p \in 0..(MaxSeqLen - 1) :
                     /\ FirstDifferent(p)
                     /\ dominates_by_search(
                            ValidRulesAt(p),
                            temporal_call.sequence._position_list[p + 1],
                            temporal_call.goal_sequence._position_list[p + 1])
        /\ (/\ temporal_call.rule_list = <<TRuleX>>
            /\ temporal_call.sequence = SequenceOf(<<[x |-> 1], [x |-> 2]>>)
            /\ temporal_call.goal_sequence
                  = SequenceOf(<<[x |-> 2], [x |-> 1]>>))
              => temporal_call.dominates
        /\ (/\ temporal_call.rule_list = <<TRuleX>>
            /\ temporal_call.sequence = SequenceOf(<<[x |-> 2], [x |-> 1]>>)
            /\ temporal_call.goal_sequence
                  = SequenceOf(<<[x |-> 1], [x |-> 2]>>))
              => ~temporal_call.dominates

\* a sequence dominates one that differs from it after the first position
C26_Witness ==
    /\ temporal_call.name = "dominates_by_search"
    /\ temporal_call.dominates
    /\ FirstDifferent(1)
    /\ DifferAt(2)

(***************************************************************************)
(* SEQ in the plans of SpecS: the positions a tick appends and the         *)
(* positions a tick removes.                                               *)
(***************************************************************************)
\* the sequences SEQ outputs
SeqOutput(plan) ==
    {plan.heap[plan.seqop._sequence_list[i]] :
        i \in 1..Len(plan.seqop._sequence_list)}

\* the timestamp is inside the window that holds it
InsideWindow(timestamp, range_slide) ==
    \/ range_slide[1] = -1
    \/ /\ get_start_end(timestamp, range_slide[1], range_slide[2])[1]
             <= timestamp
       /\ timestamp
             <= get_start_end(timestamp, range_slide[1], range_slide[2])[2]

\* the places of a sequence that hold the timestamp
PlacesAt(seq, timestamp) ==
    {pos \in 1..SeqLen(seq) : seq._timestamp_list[pos] = timestamp}

\* how many positions of the output hold the timestamp
PositionsAt(plan, timestamp) ==
    LET id_list == plan.seqop._sequence_list
        count[i \in 0..Len(id_list)] ==
            IF i = 0 THEN 0
            ELSE count[i - 1]
                 + Cardinality(PlacesAt(plan.heap[id_list[i]], timestamp))
    IN count[Len(id_list)]

\* the record has a position of its own at the timestamp in the sequence of
\* its identifier
HasPositionOf(plan, rec, timestamp) ==
    \E seq \in SeqOutput(plan) :
        /\ seq._identifier_record = rec.id
        /\ \E pos \in PlacesAt(seq, timestamp) :
              seq._position_list[pos] = [a |-> rec.a, b |-> rec.b]

\* C27: when SEQ runs at a tick inside the window, every record of the
\* inserted list has a position with its attributes and the timestamp in
\* the sequence of its identifier, and the positions with the timestamp
\* are as many as the inserted records
C27_OnePositionPerInsertedRecord ==
    [][\A record_list \in StreamLists :
          (/\ InsideWindow(now + 1, window)
           /\ plan_inc' = Plan_run(plan_inc, record_list, now + 1, window))
              => /\ \A i \in 1..Len(record_list) :
                       HasPositionOf(plan_inc', record_list[i], now + 1)
                 /\ PositionsAt(plan_inc', now + 1) = Len(record_list)]_vars

\* C28: with a bounded range the output of SEQ after a tick holds no
\* expired position and no empty sequence, and a sequence that holds only
\* positions of the tick was created at the tick
C28_NoExpiredPosition ==
    (plan_inc # <<>> /\ now >= 0 /\ window[1] # -1) =>
        \A id \in Range(plan_inc.seqop._sequence_list) :
            /\ SeqLen(plan_inc.heap[id]) > 0
            /\ \A pos \in 1..SeqLen(plan_inc.heap[id]) :
                  /\ plan_inc.heap[id]._start_end_list[pos][1] <= now
                  /\ plan_inc.heap[id]._start_end_list[pos][2] >= now
            /\ PlacesAt(plan_inc.heap[id], now) = 1..SeqLen(plan_inc.heap[id])
                  => id = SeqId(plan_inc.heap[id]._identifier_record, now)

\* a sequence lost its expired positions and got a position at the tick,
\* and a sequence was created at the tick after an earlier one of the same
\* identifier
C28_Witness ==
    /\ plan_inc # <<>>
    /\ window[1] # -1
    /\ now >= 2
    /\ \E id \in Range(plan_inc.seqop._sequence_list) :
          /\ id[3] < plan_inc.heap[id]._timestamp_list[1]
          /\ PlacesAt(plan_inc.heap[id], now) # {}
          /\ SeqLen(plan_inc.heap[id]) > 1
    /\ \E id \in Range(plan_inc.seqop._sequence_list) :
          /\ id = SeqId(plan_inc.heap[id]._identifier_record, now)
          /\ SeqLen(plan_inc.heap[id]) = 1

(***************************************************************************)
(* CONSEQ and ENDSEQ in the plans of SpecS: the sub-sequences of a         *)
(* sequence of SEQ.                                                        *)
(***************************************************************************)
\* the sub-sequences a plan outputs for an identifier, in list order
OutputOf(plan, identifier) ==
    SelectSeq(PlanOutput(plan), LAMBDA view : view.identifier = identifier)

\* the identifiers of the sequences SEQ outputs
InputIdentifiers(plan) ==
    {seq._identifier_record : seq \in SeqOutput(plan)}

\* the sequence of SEQ of an identifier
InputOf(plan, identifier) ==
    CHOOSE seq \in SeqOutput(plan) : seq._identifier_record = identifier

\* timestamps that increase by exactly 1
Consecutive(timestamps) ==
    \A i \in 1..(Len(timestamps) - 1) : timestamps[i + 1] = timestamps[i] + 1

\* the sub-sequences are the maximal runs of consecutive timestamps
IsRunPartition(seq, runs) ==
    /\ Flatten([i \in 1..Len(runs) |-> runs[i].positions])
          = seq._position_list
    /\ Flatten([i \in 1..Len(runs) |-> runs[i].timestamps])
          = seq._timestamp_list
    /\ \A i \in 1..Len(runs) :
          /\ Len(runs[i].timestamps) > 0
          /\ Len(runs[i].positions) = Len(runs[i].timestamps)
          /\ Consecutive(runs[i].timestamps)
    /\ \A i \in 1..(Len(runs) - 1) :
          runs[i + 1].timestamps[1]
              > runs[i].timestamps[Len(runs[i].timestamps)] + 1

\* C29: at every tick and by either algorithm the sub-sequences CONSEQ
\* outputs for a sequence are its maximal runs of consecutive timestamps:
\* in order they give the sequence, the timestamps of a run increase by 1
\* and a gap separates two runs
C29_ConseqMaximalRuns ==
    \A plan \in {plan_inc, plan_naive} :
        (plan # <<>> /\ plan.subop._operator_name = "CONSEQ") =>
            /\ \A i \in 1..Len(PlanOutput(plan)) :
                  PlanOutput(plan)[i].identifier \in InputIdentifiers(plan)
            /\ \A identifier \in InputIdentifiers(plan) :
                  IsRunPartition(InputOf(plan, identifier),
                                 OutputOf(plan, identifier))

\* the timestamps 0, 1, 3, 4 give two runs of length 2 by both algorithms
C29_Witness ==
    /\ plan_inc # <<>>
    /\ plan_inc.subop._operator_name = "CONSEQ"
    /\ \E identifier \in InputIdentifiers(plan_inc) :
          /\ InputOf(plan_inc, identifier)._timestamp_list = <<0, 1, 3, 4>>
          /\ \A plan \in {plan_inc, plan_naive} :
                /\ Len(OutputOf(plan, identifier)) = 2
                /\ OutputOf(plan, identifier)[1].timestamps = <<0, 1>>
                /\ OutputOf(plan, identifier)[2].timestamps = <<3, 4>>

\* C30: at every tick and by either algorithm ENDSEQ outputs for a sequence
\* of length n its n suffixes, each once, from the longest to the shortest
C30_EndseqSuffixes ==
    \A plan \in {plan_inc, plan_naive} :
        (plan # <<>> /\ plan.subop._operator_name = "ENDSEQ") =>
            /\ \A i \in 1..Len(PlanOutput(plan)) :
                  PlanOutput(plan)[i].identifier \in InputIdentifiers(plan)
            /\ \A identifier \in InputIdentifiers(plan) :
                  OutputOf(plan, identifier) =
                      [i \in 1..SeqLen(InputOf(plan, identifier)) |->
                          [identifier |-> identifier,
                           positions |->
                               SubSeq(InputOf(plan, identifier)._position_list,
                                      i, SeqLen(InputOf(plan, identifier))),
                           timestamps |->
                               SubSeq(InputOf(plan, identifier)._timestamp_list,
                                      i, SeqLen(InputOf(plan, identifier)))]]

\* ENDSEQ outputs the three suffixes of a sequence that lost a position
C30_Witness ==
    /\ plan_inc # <<>>
    /\ plan_inc.subop._operator_name = "ENDSEQ"
    /\ \E identifier \in InputIdentifiers(plan_inc) :
          /\ SeqLen(InputOf(plan_inc, identifier)) = 3
          /\ InputOf(plan_inc, identifier)._timestamp_list[1] > 0
          /\ Len(OutputOf(plan_inc, identifier)) = 3
          /\ Len(OutputOf(plan_naive, identifier)) = 3

(***************************************************************************)
(* The hierarchies under inserts only, and get_topk over them              *)
(***************************************************************************)
MaxTopk == 3

\* update([], insert_list) on each hierarchy
HierarchyInsert ==
    \E insert_list \in RecordLists :
        /\ ~hier_anc.error
        /\ \A rec \in Range(insert_list) :
              LiveCount(rec) + CountIn(insert_list, rec) <= MaxCopies
        /\ hier_graph._current_id
              + Cardinality({rec \in Range(insert_list) : LiveCount(rec) = 0})
                  <= MaxRecordId + 1
        /\ hier_anc' = Ancestors_update(hier_anc, <<>>, insert_list)
        /\ hier_part' = Partition_update(hier_part, <<>>, insert_list)
        /\ hier_graph' = Graph_update(hier_graph, <<>>, insert_list)
        /\ hier_log' = Logged(hier_log, hier_graph', <<>>, insert_list)
        /\ UNCHANGED <<varsS, varsT, varsM, varsP, varsV>>

InitG == InitH

NextG == HierarchyInsert

SpecG == InitG /\ [][NextG]_vars

\* how many records a hierarchy holds, copies counted
TotalCount(h) ==
    LET id_list == IntSetToSeq(DOMAIN h._id_dict)
    IN Len(_records_of(h, id_list))

\* C31: after any sequence of inserts applied to a HierarchyPartition and a
\* HierarchyGraph alike, get_topk(k) returns on both a list (no exception,
\* no loop without end) and the two lists have the same length, at most k
C31_TopkEqualLength ==
    \A topk \in 1..MaxTopk :
        LET p == Partition_get_topk(hier_part, topk)
            g == Graph_get_topk(hier_graph, topk)
        IN /\ ~p.error /\ ~p.hang
           /\ ~g.error /\ ~g.hang
           /\ Len(p.rec_list) = Len(g.rec_list)
           /\ Len(p.rec_list) <= topk

\* three records of which one is dominated: get_topk(2) cuts both lists,
\* get_topk(3) goes below the best set
C31_Witness ==
    /\ TotalCount(hier_graph) > 3
    /\ Cardinality(hier_graph._best_set) = 1
    /\ Len(Partition_get_topk(hier_part, 2).rec_list) = 2
    /\ Len(Graph_get_topk(hier_graph, 3).rec_list) = 3

(***************************************************************************)
(* Claims on the state of each hierarchy after an update                   *)
(***************************************************************************)
\* the record is non preferred by the comparison and a live record of the
\* same partition is preferred by it
NonPreferredUnderLive(h, rec, comp_id) ==
    LET comp == TheoryComparisons[comp_id]
    IN /\ is_worst_record(comp, ToCells(rec))
       /\ \E other \in Range(h._id_dict) :
             /\ is_best_record(comp, ToCells(other))
             /\ get_partition_id(other, comp_id, comp)
                    = get_partition_id(rec, comp_id, comp)

DominatedComparisons(h, rec) ==
    {comp_id \in 1..Len(TheoryComparisons) :
        NonPreferredUnderLive(h, rec, comp_id)}

\* C32: after every update of a HierarchyPartition the best set holds
\* exactly the live ids whose record is, for no comparison, a non preferred
\* member of a partition with a live preferred record, and the count of
\* dominating partitions of a record is the number of such comparisons (it
\* goes down only when a partition loses its last preferred record)
C32_PartitionBestSet ==
    /\ hier_part._best_set =
           {id \in DOMAIN hier_part._id_dict :
               DominatedComparisons(hier_part, hier_part._id_dict[id]) = {}}
    /\ \A id \in DOMAIN hier_part._id_dict :
           LET n == Cardinality(DominatedComparisons(hier_part,
                                                     hier_part._id_dict[id]))
           IN IF n = 0 THEN id \notin DOMAIN hier_part._pdom_count
              ELSE /\ id \in DOMAIN hier_part._pdom_count
                   /\ hier_part._pdom_count[id] = n

\* the live ids whose record dominates the record of the id
LiveAncestors(h, id) ==
    {other \in DOMAIN h._id_dict :
        cptheory_dominates(h._id_dict[other], h._id_dict[id])}

MaxOf(S) == CHOOSE x \in S : \A y \in S : y <= x

\* C34: after every update of a HierarchyAncestors a live record without
\* live ancestor has level 0 and is in the best set, every other live
\* record has level 1 + the maximum level of its ancestors and is not in the
\* best set, no level is -1 and the update list is empty
C34_AncestorsLevels ==
    /\ ~hier_anc.error
    /\ hier_anc._update_list = <<>>
    /\ DOMAIN hier_anc._level_dict = DOMAIN hier_anc._id_dict
    /\ \A id \in DOMAIN hier_anc._id_dict :
           LET anc == LiveAncestors(hier_anc, id)
           IN /\ hier_anc._level_dict[id] # -1
              /\ IF anc = {}
                 THEN /\ hier_anc._level_dict[id] = 0
                      /\ id \in hier_anc._best_set
                 ELSE /\ \A other \in anc : other \in DOMAIN hier_anc._level_dict
                      /\ hier_anc._level_dict[id] =
                             1 + MaxOf({hier_anc._level_dict[other] :
                                           other \in anc})

(***************************************************************************)
(* The hierarchies under updates of a bounded total size                   *)
(***************************************************************************)
MaxChangeLen == 1

ChangeLists == UNION {[1..n -> Records] : n \in 0..MaxChangeLen}

\* update(delete_list, insert_list) on each hierarchy, the two lists holding
\* MaxChangeLen records together at most; the deleted records are present
HierarchyChange ==
    \E delete_list \in ChangeLists, insert_list \in ChangeLists :
        /\ Len(delete_list) + Len(insert_list) <= MaxChangeLen
        /\ ~hier_anc.error
        /\ \A rec \in Range(delete_list) :
              CountIn(delete_list, rec) <= LiveCount(rec)
        /\ \A rec \in Range(insert_list) :
              LiveCount(rec) - CountIn(delete_list, rec)
                  + CountIn(insert_list, rec) <= MaxCopies
        /\ hier_graph._current_id
              + Cardinality({rec \in Range(insert_list) :
                    LiveCount(rec) = CountIn(delete_list, rec)})
                  <= MaxRecordId + 1
        /\ hier_anc' = Ancestors_update(hier_anc, delete_list, insert_list)
        /\ hier_part' = Partition_update(hier_part, delete_list, insert_list)
        /\ hier_graph' = Graph_update(hier_graph, delete_list, insert_list)
        /\ hier_log' = Logged(hier_log, hier_graph', delete_list, insert_list)
        /\ UNCHANGED <<varsS, varsT, varsM, varsP, varsV>>

InitJ == InitH

NextJ == HierarchyChange

SpecJ == InitJ /\ [][NextJ]_vars

\* the ids the lists of a dictionary of the graph hold
EntryIds(list_dict) ==
    UNION {Range(list_dict[id]) : id \in DOMAIN list_dict}

GraphAncestors(h, id) ==
    IF id \in DOMAIN h._ancestors_dict THEN Range(h._ancestors_dict[id])
    ELSE {}

\* C35: after every update of a HierarchyGraph the best set holds exactly
\* the live ids without ancestor, the ancestors of a live id are the live
\* ids whose record dominates its record, and no key or entry of the
\* ancestors and successors dictionaries is a deleted id; so a delete
\* brings into the best set exactly the successors that lose their last
\* ancestor
C35_GraphBestSet ==
    LET live == DOMAIN hier_graph._id_dict
    IN /\ hier_graph._best_set = {id \in live : LiveAncestors(hier_graph, id) = {}}
       /\ \A id \in live : GraphAncestors(hier_graph, id) = LiveAncestors(hier_graph, id)
       /\ DOMAIN hier_graph._ancestors_dict \subseteq live
       /\ DOMAIN hier_graph._successors_dict \subseteq live
       /\ EntryIds(hier_graph._ancestors_dict) \subseteq live
       /\ EntryIds(hier_graph._successors_dict) \subseteq live

\* a record was deleted, and a live record that a record no longer held
\* dominates is in the best set next to a record with a live ancestor
C35_Witness ==
    /\ hier_graph._current_id - 1 > Cardinality(DOMAIN hier_graph._id_dict)
    /\ \E id \in hier_graph._best_set :
          \E rec \in Records \ Range(hier_graph._id_dict) :
              cptheory_dominates(rec, hier_graph._id_dict[id])
    /\ \E id \in DOMAIN hier_graph._id_dict : id \notin hier_graph._best_set

\* how many copies of the record the live ids of the hierarchy stand for
ExpandedCount(h, rec) ==
    Cardinality({p \in (DOMAIN h._id_dict) \X (1..(MaxCopies + 1)) :
                    /\ h._id_dict[p[1]] = rec
                    /\ p[2] <= h._count_dict[p[1]]})

HierarchyEntries(h) ==
    /\ \A rec \in Records : ExpandedCount(h, rec) = hier_log.net[rec]
    /\ DOMAIN h._count_dict = DOMAIN h._id_dict
    /\ \A id \in DOMAIN h._id_dict :
          /\ h._count_dict[id] >= 1
          /\ id < h._current_id
          /\ h._id_dict[id] = hier_log.assigned[id]
          /\ \A other \in DOMAIN h._id_dict :
                h._id_dict[other] = h._id_dict[id] => other = id
    /\ h._best_set \subseteq DOMAIN h._id_dict

\* C36: after any sequence of updates the live ids of every hierarchy,
\* each taken as many times as its count, are the records inserted and not
\* deleted; a record has one id, the id was never the id of another record,
\* every live id has a count of at least 1, and the best set holds live ids
\* only
C36_RefcountedEntries ==
    /\ HierarchyEntries(hier_anc)
    /\ HierarchyEntries(hier_part)
    /\ HierarchyEntries(hier_graph)

\* a record is held twice under one id, and the id of a record that was
\* deleted is not given to the records that came later
C36_Witness ==
    /\ \E id \in DOMAIN hier_graph._id_dict : hier_graph._count_dict[id] = 2
    /\ \E id \in DOMAIN hier_log.assigned :
          /\ id \notin DOMAIN hier_graph._id_dict
          /\ \E later \in DOMAIN hier_graph._id_dict : later > id
          /\ hier_log.assigned[id] \in Range(hier_graph._id_dict)

(***************************************************************************)
(* Claims on the sequence tree of the index                                *)
(***************************************************************************)
\* the node the child dictionaries lead to from ref along the records
RECURSIVE Walk(_, _, _)
Walk(nodes, ref, record_list) ==
    IF record_list = <<>> THEN ref
    ELSE IF Head(record_list) \in DOMAIN nodes[ref]._child_dict
    THEN Walk(nodes, nodes[ref]._child_dict[Head(record_list)],
              Tail(record_list))
    ELSE NoneNode

PositionsOf(sequence) ==
    [i \in 1..SeqLen(sequence) |-> get_position(sequence, i - 1)]

\* every indexed sequence is in the sequence dictionary of the node that
\* the path of its positions leads to from the root, the node has the depth
\* of the length of the sequence, the sequence node dictionary maps the
\* sequence to the node, and the nodes of the tree hold no other sequence
StoredByPath(heap, index) ==
    /\ \A seq_id \in DOMAIN index._sequence_node_dict :
          LET ref == Walk(index.nodes, index._tree, PositionsOf(heap[seq_id]))
          IN /\ ref # NoneNode
             /\ index._sequence_node_dict[seq_id] = ref
             /\ index.nodes[ref]._depth = SeqLen(heap[seq_id])
             /\ seq_id \in index.nodes[ref]._sequence_dict
    /\ \A ref \in Descendants(index.nodes, index._tree) :
          \A seq_id \in index.nodes[ref]._sequence_dict :
              /\ seq_id \in DOMAIN index._sequence_node_dict
              /\ index._sequence_node_dict[seq_id] = ref

S1 == ParsedRule([b |-> Interval(1, "<=", "<=", 3)], "a", Interval(2, "<=", "<", 6), "a", IntervalEq(11), {})
\* IF 2 < b <= 4 THEN 4 < a <= 9 BETTER a = 1
S2 == ParsedRule([b |-> Interval(2, "<", "<=", 4)], "a", Interval(4, "<", "<=", 9), "a", IntervalEq(1), {})
\* IF b = 3 THEN a = 5 BETTER 5 < a <= 9
S3 == ParsedRule([b |-> IntervalEq(3)], "a", IntervalEq(5), "a", Interval(5, "<", "<=", 9), {})

SplitBase == <<P1, P8, P9, P10, P11, P12, P18, S1, S2, S3>>

\* IF PREVIOUS 1 <= b <= 3 THEN a = 1 BETTER a = 2
ST1 == ParsedTemporalRule(FALSE, [b |-> Interval(1, "<=", "<=", 3)], EmptyDict, EmptyDict, P1)
\* IF PREVIOUS 2 < b <= 4 AND SOME PREVIOUS 1 < b < 3 THEN a = 2 BETTER a = 1
ST2 == ParsedTemporalRule(FALSE, [b |-> Interval(2, "<", "<=", 4)], [b |-> Interval(1, "<", "<", 3)], EmptyDict, P2)
\* IF ALL PREVIOUS 2 <= b <= 3 THEN 1 < a < 9 BETTER a = 10
ST3 == ParsedTemporalRule(FALSE, EmptyDict, EmptyDict, [b |-> Interval(2, "<=", "<=", 3)], P8)
\* IF FIRST THEN 2 < a < 5 BETTER a = 11
ST4 == ParsedTemporalRule(TRUE, EmptyDict, EmptyDict, EmptyDict, P9)
\* IF b = 2 AND SOME PREVIOUS b = 3 THEN a = 1 BETTER a = 2
ST5 == ParsedTemporalRule(FALSE, EmptyDict, [b |-> IntervalEq(3)], EmptyDict, P6)

SplitTemporalBase == <<ST1, ST2, ST3, ST4, ST5>>

\* how many rules the list given to _split_rules holds at most
MaxSplitRules == 2

SplitRuleLists ==
    {build_rules(parsed_list, AttributeList) :
        parsed_list \in UNION {[1..n -> Range(SplitBase)]
                                  \cup [1..n -> Range(SplitTemporalBase)] :
                                  n \in 1..MaxSplitRules}}

\* rule.split(other_rule) of every rule of the list, as the for loops of
\* _split_rules compute it
_split_lists(rule_list) ==
    [i \in 1..Len(rule_list) |-> _first_split(rule_list[i], rule_list)]

\* _check_consistency calls _split_rules when every rule is consistent
InitL ==
    /\ IdleH
    /\ IdleS
    /\ IdleT
    /\ IdleM
    /\ IdleP
    /\ interval_call = <<>>
    /\ temporal_call = <<>>
    /\ clean_call = <<>>
    /\ \E rule_list \in SplitRuleLists :
          /\ check_rules_consistency(rule_list)
          /\ split_call = [initial_list |-> rule_list,
                           rule_list |-> rule_list,
                           change |-> TRUE]

\* a turn of the while loop that finds a split: the rule leaves, its new
\* rules enter
SplitRulesTurn ==
    /\ split_call.change
    /\ \E split_lists \in {_split_lists(split_call.rule_list)} :
          \E i \in {_first_split_index(split_lists)} :
              /\ i # 0
              /\ split_call' =
                     [split_call EXCEPT
                         !.rule_list =
                             _split_once(split_call.rule_list, i,
                                         split_lists)]
    /\ UNCHANGED <<interval_call, temporal_call, clean_call, varsH, varsS,
                   varsT, varsM, varsP>>

\* a turn of the while loop that finds no split: change stays False and the
\* list is returned
SplitRulesReturn ==
    /\ split_call.change
    /\ _first_split_index(_split_lists(split_call.rule_list)) = 0
    /\ split_call' = [split_call EXCEPT !.change = FALSE]
    /\ UNCHANGED <<interval_call, temporal_call, clean_call, varsH, varsS,
                   varsT, varsM, varsP>>

NextL == SplitRulesTurn \/ SplitRulesReturn

SpecL == InitL /\ [][NextL]_vars

\* how many of the points 0, 1/2, 1, ... the interval holds
PointsIn(iv) == Cardinality({p \in 0..MaxPoint : InInterval(iv, p)})

RECURSIVE DictCells(_, _)
DictCells(condition_dict, atts) ==
    IF atts = {} THEN 1
    ELSE LET att == CHOOSE a \in atts : TRUE
         IN PointsIn(condition_dict[att])
            * DictCells(condition_dict, atts \ {att})

\* how many combinations of points, one of every interval of the rule, the
\* rule covers
Cells(rule) ==
    DictCells(rule.cond, DOMAIN rule.cond)
    * (IF is_temporal_rule(rule)
       THEN DictCells(rule.previous, DOMAIN rule.previous)
            * DictCells(rule.some, DOMAIN rule.some)
            * DictCells(rule.all, DOMAIN rule.all)
       ELSE 1)
    * PointsIn(rule.best) * PointsIn(rule.worst)

RECURSIVE SplitsLeft(_)
SplitsLeft(rule_list) ==
    IF rule_list = <<>> THEN 0
    ELSE (Cells(Head(rule_list)) - 1) + SplitsLeft(Tail(rule_list))

\* C40: for every list of individually consistent rules the loop of
\* _split_rules ends: every turn that splits a rule lowers a number that is
\* never negative (the combinations of points the rules cover, less one for
\* each rule), so after finitely many splits a turn finds no rule that
\* another rule splits and the list is returned
C40_SplitRulesTerminates ==
    [][SplitRulesTurn =>
           /\ SplitsLeft(split_call'.rule_list) < SplitsLeft(split_call.rule_list)
           /\ SplitsLeft(split_call'.rule_list) >= 0]_vars

C40_Witness ==
    /\ ~split_call.change
    /\ Len(split_call.initial_list) = 2
    /\ Len(split_call.rule_list) >= 4
    /\ \A i \in 1..Len(split_call.rule_list) :
          ~rule_in(split_call.rule_list[i], split_call.initial_list)

(***************************************************************************)
(* TOPKSEQ by the sequence tree and by the sequence tree with pruning     *)
(***************************************************************************)
InitO ==
    /\ IdleH
    /\ IdleP
    /\ IdleV
    /\ IdleM
    /\ plan_inc = <<>>
    /\ plan_naive = <<>>
    /\ now = -1
    /\ window \in WindowsT
    /\ plan_search = <<>>
    /\ plan_tree = <<>>
    /\ plan_sub = <<>>
    /\ plan_prune = <<>>
    /\ \E topk \in TopKs :
          /\ plan_topk = TPlan(SEQ_ALG_SEQTREE, topk)
          /\ plan_prune_topk = TPlan(SEQ_ALG_SEQTREE_PRUNING, topk)

\* a plan whose operator hangs in topk_sequences runs no more
TickO ==
    /\ now < MaxTickT
    /\ ~plan_topk.tpop.hang
    /\ ~plan_prune_topk.tpop.hang
    /\ \E record_list \in TStreamLists :
          /\ plan_topk' = TPlan_run(plan_topk, record_list, now + 1, window)
          /\ plan_prune_topk' = TPlan_run(plan_prune_topk, record_list,
                                          now + 1, window)
    /\ now' = now + 1
    /\ UNCHANGED <<window, plan_inc, plan_naive, plan_search, plan_tree,
                   plan_sub, plan_prune, varsH, varsM, varsP, varsV>>

NextO == TickO

SpecO == InitO /\ [][NextO]_vars

\* C33: topk_sequences(k) ends on the sequence tree and on the sequence
\* tree with pruning, also when k is larger than the number of indexed
\* sequences: no turn of its loop leaves the tree as it was
C33_TopkTerminates ==
    plan_prune_topk # <<>>
        => ~plan_topk.tpop.hang /\ ~plan_prune_topk.tpop.hang

(***************************************************************************)
(* BESTSEQ by the sequence tree and by the sequence tree with pruning     *)
(***************************************************************************)
MaxTickN == 2

WindowsN == {<<-1, 1>>, <<2, 1>>}

\* the records a stream inserts at a tick: at most one for an identifier,
\* in the order of the identifiers; the second identifier comes with the
\* best or with the worst record only
NStreamLists ==
    {record_list \in TStreamLists :
        \A i \in 1..Len(record_list) :
            record_list[i].id = 2 => record_list[i].a = record_list[i].b}

InitN ==
    /\ IdleH
    /\ IdleP
    /\ IdleV
    /\ IdleM
    /\ plan_inc = <<>>
    /\ plan_naive = <<>>
    /\ now = -1
    /\ window \in WindowsN
    /\ plan_search = <<>>
    /\ plan_topk = <<>>
    /\ plan_sub = <<>>
    /\ plan_prune_topk = <<>>
    /\ plan_tree = TPlan(SEQ_ALG_SEQTREE, -1)
    /\ plan_prune = TPlan(SEQ_ALG_SEQTREE_PRUNING, -1)

TickN ==
    /\ now < MaxTickN
    /\ \E record_list \in NStreamLists :
          /\ plan_tree' = TPlan_run(plan_tree, record_list, now + 1, window)
          /\ plan_prune' = TPlan_run(plan_prune, record_list, now + 1, window)
    /\ now' = now + 1
    /\ UNCHANGED <<window, plan_inc, plan_naive, plan_search, plan_topk,
                   plan_sub, plan_prune_topk, varsH, varsM, varsP, varsV>>

NextN == TickN

SpecN == InitN /\ [][NextN]_vars

\* the nodes of the tree of an index
TreeNodes(index) == Descendants(index.nodes, index._tree)

\* C39: a node of the pruning tree created below a dominated node is marked
\* dominated and no hierarchy takes its record
C39_BornBelowDominated ==
    plan_prune # <<>> =>
        \A ref \in TreeNodes(plan_prune.tpop._seqindex) :
            LET node == plan_prune.tpop._seqindex.nodes[ref]
            IN node.born.below_dominated
                   => node.born.dominated /\ ~node.born.classified

\* what a sequence object holds: its identifier and its positions
SeqContent(heap, seq_id) ==
    <<heap[seq_id]._identifier_record, heap[seq_id]._position_list>>

\* the sequences BESTSEQ returned
BestContents(plan) ==
    {SeqContent(plan.heap, seq_id) : seq_id \in Range(plan.tpop._sequence_list)}

\* the node above a node that is not the root
FatherRef(ref) == <<ref[1], SubSeq(ref[2], 1, Len(ref[2]) - 1)>>

\* the record of the node is dominated in a hierarchy over the records of
\* the children of its father
DominatedAmongSiblings(nodes, ref) ==
    get_record(nodes[ref])
        \in DOMAIN _hierarchy_add_all(
                       get_hierarchy(nodes[FatherRef(ref)]._sequence),
                       child_records(nodes, FatherRef(ref)))._dominated_count

\* no node above the node is dominated
UnderDominantNodes(nodes, ref) ==
    \A above \in PathNodes(FatherRef(ref)) : ~is_dominated(nodes[above])

SameBestSequences ==
    plan_prune # <<>> => BestContents(plan_prune) = BestContents(plan_tree)

====
